---- MODULE Spec2Model ----
(***************************************************************************)
(* Model of the j9 shot browser: the client state held by App.tsx (tags,   *)
(* playlists, active playlist), the REST client of api.ts and the store    *)
(* behind server/index.js.                                                 *)
(*                                                                         *)
(* Strings are sequences of UTF-16 code units, so that trim, toLowerCase   *)
(* and the default Array.prototype.sort order are computed, not assumed.   *)
(* An async handler is split where the code awaits: the call (validation   *)
(* and the request), the route of the server, and the continuation that    *)
(* runs when fetch settles.                                                *)
(***************************************************************************)
EXTENDS Integers, Sequences, FiniteSets, TLC

VARIABLES
  tags,                \* App state: Record<shotId, string[]>
  playlists,           \* App state: Record<name, shotId[]>
  activePlaylistName,  \* App state: string | null
  srvTags,             \* store: the Tag collection, documents in insertion order
  srvPlaylists,        \* store: the Playlist collection, keyed by its unique name
  load,                \* the startup effect: its two fetches and its outcome
  inflight,            \* handlers suspended at their await, with what they captured
  last,                \* history: the step taken last
  hist,                \* history: what has happened so far
  nOps,                \* history: number of requests issued
  shots,               \* App state: Shot[], the collection the last scan produced
  selectedShot,        \* App state: Shot | null, the shot that is open: <<shot>> or <<>>
  shotCovers,          \* App state and localStorage j9_shotCovers: Record<shotId, file name>
  isLoading,           \* App state: a scan is reading files
  error,               \* App state: the scan-level error message, or null
  scans,               \* handleFilesSelected calls suspended at an await
  notice,              \* the alert of the last accepted playlist import
  blobs,               \* object URLs of installed collections that are not revoked
  shotsScan,           \* which scan created the object URLs the collection holds, 0: none
  searchQuery,         \* App state: the text of the search box
  selectedTags,        \* App state: Set<string>, the tags to filter by
  exportModalState,    \* App state: what the export dialog is open for
  exported             \* the file handlePerformExport offered for download last

\* selectedShot when no shot is open
NoShot == <<>>

\* exported when nothing was offered for download
NoDownload == [fileName |-> "", data |-> <<>>]

\* what the scan and the cover handlers work on
urls == <<blobs, shotsScan>>
view == <<searchQuery, selectedTags, exportModalState, exported>>
library == <<shots, selectedShot, shotCovers, isLoading, error, scans, urls, view>>

vars == <<tags, playlists, activePlaylistName, srvTags, srvPlaylists,
          load, inflight, last, hist, nOps, library, notice>>

(***************************************************************************)
(* Bounds of the model (not program constants).                            *)
(***************************************************************************)
MaxOps == 2
MaxInflight == 2
\* scans under way at the same time
MaxScans == 2

(***************************************************************************)
(* Program constants.                                                      *)
(***************************************************************************)
TagLimit == 20

(***************************************************************************)
(* Strings.                                                                *)
(***************************************************************************)
Empty == <<>>
Null == <<0>>
Blank == <<32>>
TagUA == <<65>>
TagLa == <<97>>
TagLb == <<98>>
TagLc == <<99>>
TagLbPadded == <<32, 98, 32>>
ShotS1 == <<115, 49>>
ShotS2 == <<115, 50>>
ListP == <<112>>
ListQ == <<113>>
ListQPadded == <<113, 32>>

ShotIds == {ShotS1, ShotS2}
RawTags == {Blank, TagUA, TagLbPadded}
\* the tags the user picks for removal or renaming, among those displayed
PickedTags == {TagUA, TagLa, TagLb, TagLc}
RawNames == {Blank, ListP, ListQPadded}

IsSpace(c) == c = 32

RECURSIVE TrimStart(_)
TrimStart(s) ==
  IF s # <<>> /\ IsSpace(Head(s)) THEN TrimStart(Tail(s)) ELSE s

RECURSIVE TrimEnd(_)
TrimEnd(s) ==
  IF s # <<>> /\ IsSpace(s[Len(s)]) THEN TrimEnd(SubSeq(s, 1, Len(s) - 1)) ELSE s

Trim(s) == TrimEnd(TrimStart(s))

ToLowerCase(s) ==
  [i \in 1..Len(s) |-> IF s[i] >= 65 /\ s[i] <= 90 THEN s[i] + 32 ELSE s[i]]

EqIgnoreCase(s, t) == ToLowerCase(s) = ToLowerCase(t)

Truthy(s) == s # Null /\ s # Empty

\* code-unit order, the comparison of Array.prototype.sort() without a comparator
RECURSIVE StrLess(_, _)
StrLess(s, t) ==
  IF t = <<>> THEN FALSE
  ELSE IF s = <<>> THEN TRUE
  ELSE IF Head(s) # Head(t) THEN Head(s) < Head(t)
  ELSE StrLess(Tail(s), Tail(t))

RECURSIVE InsertSorted(_, _)
InsertSorted(x, l) ==
  IF l = <<>> THEN <<x>>
  ELSE IF StrLess(x, Head(l)) THEN <<x>> \o l
  ELSE <<Head(l)>> \o InsertSorted(x, Tail(l))

RECURSIVE Sort(_)
Sort(l) == IF l = <<>> THEN <<>> ELSE InsertSorted(l[Len(l)], Sort(SubSeq(l, 1, Len(l) - 1)))

Range(l) == {l[i] : i \in 1..Len(l)}
Includes(l, x) == \E i \in 1..Len(l) : l[i] = x

Filter(l, keep(_)) == SelectSeq(l, keep)

\* index of the first element satisfying test, 0 when there is none
FindIndex(l, test(_)) ==
  IF \E i \in 1..Len(l) : test(l[i])
  THEN CHOOSE i \in 1..Len(l) : test(l[i]) /\ \A j \in 1..(i - 1) : ~test(l[j])
  ELSE 0

(***************************************************************************)
(* Records (plain objects): a function from the keys present.              *)
(***************************************************************************)
NoRecord == [k \in {} |-> <<>>]
Get(m, k) == IF k \in DOMAIN m THEN m[k] ELSE <<>>
Put(m, k, v) == [x \in DOMAIN m \cup {k} |-> IF x = k THEN v ELSE m[x]]
Delete(m, k) == [x \in DOMAIN m \ {k} |-> m[x]]
\* variant: a key of both keeps its entries and gets the new ones after them
MergeAppending(m, n) ==
  [x \in DOMAIN m \cup DOMAIN n |->
     IF x \in DOMAIN n THEN (IF x \in DOMAIN m THEN m[x] \o n[x] ELSE n[x]) ELSE m[x]]
Merge(m, n) == [x \in DOMAIN m \cup DOMAIN n |-> IF x \in DOMAIN n THEN n[x] ELSE m[x]]

(***************************************************************************)
(* TagStore: the updaters handed to setTags.                               *)
(***************************************************************************)
AddTagUpdate(prev, shotId, cleanTag) ==
  Put(prev, shotId, Sort(Append(Get(prev, shotId), cleanTag)))

\* variant: the tag is matched ignoring case
RemoveTagUpdateIgnoringCase(prev, shotId, tagToRemove) ==
  LET newTags == Filter(Get(prev, shotId), LAMBDA t : ~EqIgnoreCase(t, tagToRemove))
  IN  IF Len(newTags) > 0 THEN Put(prev, shotId, newTags) ELSE Delete(prev, shotId)

RemoveTagUpdate(prev, shotId, tagToRemove) ==
  LET newTags == Filter(Get(prev, shotId), LAMBDA t : t # tagToRemove)
  IN  IF Len(newTags) > 0 THEN Put(prev, shotId, newTags) ELSE Delete(prev, shotId)

\* variant: the replaced list is left in place, not sorted again
RenameInShotUnsorted(shotTags, oldTag, cleanedNewTag) ==
  LET oldTagIndex == FindIndex(shotTags, LAMBDA t : EqIgnoreCase(t, oldTag))
      newTagExists == \E i \in 1..Len(shotTags) :
                         i # oldTagIndex /\ EqIgnoreCase(shotTags[i], cleanedNewTag)
  IN  IF oldTagIndex # 0
      THEN IF newTagExists
           THEN Filter(shotTags, LAMBDA t : ~EqIgnoreCase(t, oldTag))
           ELSE [shotTags EXCEPT ![oldTagIndex] = cleanedNewTag]
      ELSE shotTags

RenameInShot(shotTags, oldTag, cleanedNewTag) ==
  LET oldTagIndex == FindIndex(shotTags, LAMBDA t : EqIgnoreCase(t, oldTag))
      newTagExists == \E i \in 1..Len(shotTags) :
                         i # oldTagIndex /\ EqIgnoreCase(shotTags[i], cleanedNewTag)
  IN  IF oldTagIndex # 0
      THEN IF newTagExists
           THEN Filter(shotTags, LAMBDA t : ~EqIgnoreCase(t, oldTag))
           ELSE Sort([shotTags EXCEPT ![oldTagIndex] = cleanedNewTag])
      ELSE shotTags

RenameTagUpdate(prevTags, oldTag, cleanedNewTag) ==
  [shotId \in DOMAIN prevTags |-> RenameInShot(prevTags[shotId], oldTag, cleanedNewTag)]

\* variant: the duplicate test compares the tags as written
AddTagRejectsExact(currentTags, cleanTag) ==
  \/ cleanTag = Empty
  \/ Len(currentTags) >= TagLimit
  \/ Includes(currentTags, cleanTag)

\* the validation of handleAddTag, in the order of its early returns
AddTagRejects(currentTags, cleanTag) ==
  \/ cleanTag = Empty
  \/ Len(currentTags) >= TagLimit
  \/ Includes([i \in 1..Len(currentTags) |-> ToLowerCase(currentTags[i])], ToLowerCase(cleanTag))

\* variant: the new tag is compared with the old one as written
RenameTagRejectsExact(oldTag, cleanedNewTag) ==
  cleanedNewTag = Empty \/ oldTag = cleanedNewTag

RenameTagRejects(oldTag, cleanedNewTag) ==
  cleanedNewTag = Empty \/ ToLowerCase(oldTag) = ToLowerCase(cleanedNewTag)

allTags == UNION {Range(tags[s]) : s \in DOMAIN tags}

(***************************************************************************)
(* The store behind the tag routes.                                        *)
(***************************************************************************)
Doc(shotId, value) == [shotId |-> shotId, value |-> value]

TagValuesOf(docs, shotId) ==
  LET mine == Filter(docs, LAMBDA d : d.shotId = shotId)
  IN  [i \in 1..Len(mine) |-> mine[i].value]

\* GET /api/tags
TagsResult(docs) ==
  [shotId \in {docs[i].shotId : i \in 1..Len(docs)} |-> TagValuesOf(docs, shotId)]

\* Tag.deleteOne: the first matching document
DeleteOneTag(docs, shotId, tag) ==
  LET i == FindIndex(docs, LAMBDA d : d.shotId = shotId /\ d.value = tag)
  IN  IF i = 0 THEN docs ELSE SubSeq(docs, 1, i - 1) \o SubSeq(docs, i + 1, Len(docs))

\* Tag.updateMany({value: oldTag}, {$set: {value: newTag}})
UpdateManyTags(docs, oldTag, newTag) ==
  [i \in 1..Len(docs) |-> IF docs[i].value = oldTag THEN Doc(docs[i].shotId, newTag) ELSE docs[i]]

(***************************************************************************)
(* PlaylistStore: the updaters handed to setPlaylists.                     *)
(***************************************************************************)
\* the value of a key that was assigned from a missing key
Undefined == <<Null>>

\* prev[name] ?? []
ListOf(m, name) == IF name \in DOMAIN m /\ m[name] # Undefined THEN m[name] ELSE <<>>

\* the truthiness test playlists[name]
HasList(m, name) == name \in DOMAIN m /\ m[name] # Undefined

ToggleUpdate(prev, name, shotId) ==
  LET current == ListOf(prev, name)
  IN  IF Includes(current, shotId)
      THEN Put(prev, name, Filter(current, LAMBDA id : id # shotId))
      ELSE Put(prev, name, Append(current, shotId))

CreateUpdate(prev, name) == Put(prev, name, <<>>)

DeleteUpdate(prev, nameToDelete) == Delete(prev, nameToDelete)

\* variant: the new name starts with no shots
RenameUpdateEmpty(prev, oldName, trimmedNewName) ==
  Delete(Put(prev, trimmedNewName, <<>>), oldName)

RenameUpdate(prev, oldName, trimmedNewName) ==
  Delete(Put(prev, trimmedNewName, IF oldName \in DOMAIN prev THEN prev[oldName] ELSE Undefined),
         oldName)

\* a set of names as the sorted array Object.keys(..).sort()
RECURSIVE SortedNames(_)
SortedNames(S) ==
  IF S = {} THEN <<>>
  ELSE LET m == CHOOSE x \in S : \A y \in S \ {x} : StrLess(x, y)
       IN  <<m>> \o SortedNames(S \ {m})

\* the active playlist chosen by handleDeletePlaylist from what it captured
ActiveAfterDelete(capturedActive, capturedNames, nameToDelete, current) ==
  IF capturedActive = nameToDelete
  THEN LET remainingNames == SortedNames(capturedNames \ {nameToDelete})
       IN  IF Len(remainingNames) > 0 THEN remainingNames[1] ELSE Null
  ELSE current

\* variant: the name is not looked up among the playlists
CreateRejectsEmptyOnly(lists, name) == ~(name # Empty)

CreateRejects(lists, name) == ~(name # Empty /\ ~HasList(lists, name))

RenameRejects(lists, oldName, trimmedNewName) ==
  ~(trimmedNewName # Empty /\ trimmedNewName # oldName /\ ~HasList(lists, trimmedNewName))

(***************************************************************************)
(* The store behind the playlist routes.                                   *)
(***************************************************************************)
\* $addToSet
AddToSet(l, x) == IF Includes(l, x) THEN l ELSE Append(l, x)

\* $pull
Pull(l, x) == Filter(l, LAMBDA id : id # x)

RenameKey(m, name, newName) ==
  [x \in (DOMAIN m \ {name}) \cup {newName} |-> IF x = newName THEN m[name] ELSE m[x]]

(***************************************************************************)
(* Imported documents, as JSON.parse returns them.                         *)
(***************************************************************************)
\* the key of the first element of an array, and a value that is a number
Index0 == <<48>>
JsonNumber == <<<<-1>>>>

ObjectDoc(keys, val) == [root |-> "object", keys |-> keys, val |-> val]
OtherDoc(root) == [root |-> root, keys |-> <<>>, val |-> NoRecord]

\* n tags, pairwise different also when case is ignored: "ta", "tb", ...
NumberedTags(n) == [i \in 1..n |-> <<116, 96 + i>>]

DocLoose == ObjectDoc(<<ShotS1, ShotS2>>,
                      [k \in {ShotS1, ShotS2} |-> IF k = ShotS1 THEN <<TagUA, TagLa, TagLb>> ELSE <<>>])
DocLimit == ObjectDoc(<<ShotS1, ShotS2>>,
                      [k \in {ShotS1, ShotS2} |->
                         IF k = ShotS1 THEN NumberedTags(TagLimit) ELSE NumberedTags(TagLimit + 1)])
\* [["a"]]: spread into an object it would give the key "0"
DocArray == [root |-> "array", keys |-> <<Index0>>, val |-> [k \in {Index0} |-> <<TagLa>>]]
DocNull == OtherDoc("null")

TagDocs == {DocLoose, DocLimit, DocArray, DocNull}

\* {"q": ["s1", "s1"], "p": []}
DocLists == ObjectDoc(<<ListQ, ListP>>,
                      [k \in {ListQ, ListP} |-> IF k = ListQ THEN <<ShotS1, ShotS1>> ELSE <<>>])

PlaylistDocs == {DocLists, DocArray, DocNull}

\* files the import claims are checked on: also a scalar root, a text
\* JSON.parse throws on (the catch block of the handlers rejects it like
\* the others), and an object with a value that is no array
DocScalar == OtherDoc("scalar")
DocUnparsable == OtherDoc("invalid")
\* {"s1": 5}
DocNumberTags == ObjectDoc(<<ShotS1>>, [k \in {ShotS1} |-> JsonNumber])
\* {"p": 5}
DocNumberLists == ObjectDoc(<<ListP>>, [k \in {ListP} |-> JsonNumber])

TagFiles == TagDocs \cup {DocScalar, DocUnparsable, DocNumberTags}

\* {"q": ["s1", "s2"], "p": ["s2", "s1"]}
DocTwoLists == ObjectDoc(<<ListQ, ListP>>,
                         [k \in {ListQ, ListP} |->
                            IF k = ListQ THEN <<ShotS1, ShotS2>> ELSE <<ShotS2, ShotS1>>])

PlaylistFiles == PlaylistDocs \cup {DocScalar, DocUnparsable, DocNumberLists, DocTwoLists}

\* variant: the Array.isArray test is missing (typeof [] is 'object')
ImportRejectsTypeofOnly(doc) == doc.root \notin {"object", "array"}

\* typeof x !== 'object' || x === null || Array.isArray(x)
ImportRejects(doc) == doc.root # "object"

(***************************************************************************)
(* Histories.                                                              *)
(***************************************************************************)
Step(ev, op, a, b, st) == [ev |-> ev, op |-> op, a |-> a, b |-> b, st |-> st]

Request(op, a, b) ==
  [op |-> op, a |-> a, b |-> b, act |-> activePlaylistName,
   names |-> DOMAIN playlists, st |-> "req"]

RemoveAt(q, i) == SubSeq(q, 1, i - 1) \o SubSeq(q, i + 1, Len(q))

\* the user acts once the startup effect has settled
Ready == load.st # "pending"

CanIssue == nOps < MaxOps /\ Len(inflight) < MaxInflight

\* a request is issued: the handler is now suspended at its await
Issue(op, a, b) ==
  /\ inflight' = Append(inflight, Request(op, a, b))
  /\ nOps' = nOps + 1
  /\ hist' = [hist EXCEPT !.clean = hist.clean /\ load.st = "done",
                          !.serial = hist.serial /\ inflight = <<>>]

Served(i, st) ==
  /\ inflight' = [inflight EXCEPT ![i].st = st]
  /\ hist' = [hist EXCEPT !.clean = hist.clean /\ st = "ok"]
  /\ last' = Step("serve", inflight[i].op, inflight[i].a, inflight[i].b, st)
  /\ UNCHANGED <<library, notice, tags, playlists, activePlaylistName, load, nOps>>

Pending(i, op) == inflight[i].op = op /\ inflight[i].st = "req"

\* fetch has settled with a response, whatever its status: the api functions
\* do not look at res.ok
Resolved(i, op) == inflight[i].op = op /\ inflight[i].st \in {"ok", "http"}

Finished(i) ==
  /\ inflight' = RemoveAt(inflight, i)
  /\ last' = Step("done", inflight[i].op, inflight[i].a, inflight[i].b, inflight[i].st)
  /\ UNCHANGED <<library, notice, srvTags, srvPlaylists, load, hist, nOps>>

\* a refused call changes nothing, so a second one in a row gives the states
\* the first one gives
Rejected(op, a, b) ==
  /\ last.ev # "reject"
  /\ last' = Step("reject", op, a, b, "")
  /\ UNCHANGED <<library, notice, tags, playlists, activePlaylistName, srvTags, srvPlaylists,
                 load, inflight, hist, nOps>>

Called(op, a, b) ==
  /\ last' = Step("call", op, a, b, "")
  /\ UNCHANGED <<library, notice, tags, playlists, activePlaylistName, srvTags, srvPlaylists, load>>

(***************************************************************************)
(* Startup effect: Promise.all([fetchPlaylists(), fetchTags()]).           *)
(***************************************************************************)
ServeFetchPlaylists ==
  /\ load.st = "pending" /\ ~load.gotPl
  /\ load' = [load EXCEPT !.gotPl = TRUE, !.pl = srvPlaylists]
  /\ last' = Step("serve", "fetchPlaylists", Null, Null, "ok")
  /\ UNCHANGED <<library, notice, tags, playlists, activePlaylistName, srvTags, srvPlaylists, inflight, hist, nOps>>

ServeFetchTags ==
  /\ load.st = "pending" /\ ~load.gotTg
  /\ load' = [load EXCEPT !.gotTg = TRUE, !.tg = TagsResult(srvTags)]
  /\ last' = Step("serve", "fetchTags", Null, Null, "ok")
  /\ UNCHANGED <<library, notice, tags, playlists, activePlaylistName, srvTags, srvPlaylists, inflight, hist, nOps>>

LoadDone ==
  /\ load.st = "pending" /\ load.gotPl /\ load.gotTg
  /\ playlists' = load.pl
  /\ tags' = load.tg
  /\ load' = [load EXCEPT !.st = "done"]
  /\ last' = Step("done", "load", Null, Null, "ok")
  /\ UNCHANGED <<library, notice, activePlaylistName, srvTags, srvPlaylists, inflight, hist, nOps>>

\* either fetch rejects or answers with a status that is not ok
LoadFail ==
  /\ load.st = "pending"
  /\ load' = [load EXCEPT !.st = "failed"]
  /\ hist' = [hist EXCEPT !.clean = FALSE]
  /\ last' = Step("done", "load", Null, Null, "net")
  /\ UNCHANGED <<library, notice, tags, playlists, activePlaylistName, srvTags, srvPlaylists, inflight, nOps>>

\* the request does not reach the server: fetch rejects, the await throws and
\* the handler ends there
NetFail(i) ==
  /\ i \in 1..Len(inflight)
  /\ inflight[i].st = "req"
  /\ inflight' = RemoveAt(inflight, i)
  /\ hist' = [hist EXCEPT !.clean = FALSE]
  /\ last' = Step("done", inflight[i].op, inflight[i].a, inflight[i].b, "net")
  /\ UNCHANGED <<library, notice, tags, playlists, activePlaylistName, srvTags, srvPlaylists, load, nOps>>

\* the route threw and sent no response: the await throws, the handler ends there
Thrown(i) ==
  /\ i \in 1..Len(inflight)
  /\ inflight[i].st = "net"
  /\ Finished(i)
  /\ UNCHANGED <<tags, playlists, activePlaylistName>>

(***************************************************************************)
(* Tag handlers of App.tsx and the tag routes.                             *)
(***************************************************************************)
handleAddTag(shotId, tag) ==
  LET cleanTag == Trim(tag)
      currentTags == Get(tags, shotId)
  IN  IF AddTagRejects(currentTags, cleanTag)
      THEN Rejected("addTag", shotId, tag)
      ELSE CanIssue /\ Issue("addTag", shotId, cleanTag) /\ Called("addTag", shotId, tag)

\* POST /api/tags/:shotId
ServeAddTag(i) ==
  /\ Pending(i, "addTag")
  /\ IF inflight[i].b = Empty
     THEN Served(i, "http") /\ UNCHANGED <<srvTags, srvPlaylists>>
     ELSE /\ srvTags' = Append(srvTags, Doc(inflight[i].a, inflight[i].b))
          /\ Served(i, "ok")
          /\ UNCHANGED srvPlaylists

AddTagDone(i) ==
  /\ Resolved(i, "addTag")
  /\ tags' = AddTagUpdate(tags, inflight[i].a, inflight[i].b)
  /\ Finished(i)
  /\ UNCHANGED <<playlists, activePlaylistName>>

handleRemoveTag(shotId, tagToRemove) ==
  CanIssue /\ Issue("removeTag", shotId, tagToRemove) /\ Called("removeTag", shotId, tagToRemove)

\* DELETE /api/tags/:shotId/:tag
ServeRemoveTag(i) ==
  /\ Pending(i, "removeTag")
  /\ srvTags' = DeleteOneTag(srvTags, inflight[i].a, inflight[i].b)
  /\ Served(i, "ok")
  /\ UNCHANGED srvPlaylists

RemoveTagDone(i) ==
  /\ Resolved(i, "removeTag")
  /\ tags' = RemoveTagUpdate(tags, inflight[i].a, inflight[i].b)
  /\ Finished(i)
  /\ UNCHANGED <<playlists, activePlaylistName>>

handleRenameTag(oldTag, newTag) ==
  LET cleanedNewTag == Trim(newTag)
  IN  IF RenameTagRejects(oldTag, cleanedNewTag)
      THEN Rejected("renameTag", oldTag, newTag)
      ELSE CanIssue /\ Issue("renameTag", oldTag, cleanedNewTag) /\ Called("renameTag", oldTag, newTag)

\* PUT /api/tags/rename
ServeRenameTag(i) ==
  /\ Pending(i, "renameTag")
  /\ IF inflight[i].a = Empty \/ inflight[i].b = Empty
     THEN Served(i, "http") /\ UNCHANGED <<srvTags, srvPlaylists>>
     ELSE /\ srvTags' = UpdateManyTags(srvTags, inflight[i].a, inflight[i].b)
          /\ Served(i, "ok")
          /\ UNCHANGED srvPlaylists

RenameTagDone(i) ==
  /\ Resolved(i, "renameTag")
  /\ tags' = RenameTagUpdate(tags, inflight[i].a, inflight[i].b)
  /\ Finished(i)
  /\ UNCHANGED <<playlists, activePlaylistName>>

\* reader.onload of handleTagFileSelected
handleTagFileSelected(doc) ==
  /\ IF ImportRejects(doc)
     THEN /\ last.ev # "reject"
          /\ last' = Step("reject", "importTags", Null, Null, doc.root)
          /\ UNCHANGED <<tags, hist, nOps>>
     ELSE /\ nOps < MaxOps
          /\ tags' = Merge(tags, doc.val)
          /\ hist' = [hist EXCEPT !.clean = FALSE]
          /\ last' = Step("import", "importTags", Null, Null, doc.root)
          /\ nOps' = nOps + 1
  /\ UNCHANGED <<library, notice, playlists, activePlaylistName, srvTags, srvPlaylists, load, inflight>>

(***************************************************************************)
(* Playlist handlers of App.tsx and the playlist routes.                   *)
(***************************************************************************)
handleTogglePlaylist(shotId) ==
  IF ~Truthy(activePlaylistName)
  THEN Rejected("toggle", Null, shotId)
  ELSE LET currentList == ListOf(playlists, activePlaylistName)
           op == IF Includes(currentList, shotId) THEN "removeShot" ELSE "addShot"
       IN  CanIssue /\ Issue(op, activePlaylistName, shotId) /\ Called("toggle", activePlaylistName, shotId)

\* POST /api/playlists/:name/shots
ServeAddShot(i) ==
  /\ Pending(i, "addShot")
  /\ IF inflight[i].a \in DOMAIN srvPlaylists
     THEN /\ srvPlaylists' = [srvPlaylists EXCEPT ![inflight[i].a] = AddToSet(@, inflight[i].b)]
          /\ Served(i, "ok")
     ELSE Served(i, "http") /\ UNCHANGED srvPlaylists
  /\ UNCHANGED srvTags

\* DELETE /api/playlists/:name/shots/:shotId
ServeRemoveShot(i) ==
  /\ Pending(i, "removeShot")
  /\ IF inflight[i].a \in DOMAIN srvPlaylists
     THEN /\ srvPlaylists' = [srvPlaylists EXCEPT ![inflight[i].a] = Pull(@, inflight[i].b)]
          /\ Served(i, "ok")
     ELSE Served(i, "http") /\ UNCHANGED srvPlaylists
  /\ UNCHANGED srvTags

ToggleDone(i) ==
  /\ Resolved(i, "addShot") \/ Resolved(i, "removeShot")
  /\ playlists' = ToggleUpdate(playlists, inflight[i].a, inflight[i].b)
  /\ Finished(i)
  /\ UNCHANGED <<tags, activePlaylistName>>

\* variant: the playlist is shown before the request is answered
handleCreatePlaylistOptimistic(newPlaylistName) ==
  LET name == Trim(newPlaylistName)
  IN  IF CreateRejects(playlists, name)
      THEN Rejected("create", newPlaylistName, Null)
      ELSE /\ CanIssue /\ Issue("create", name, Null)
           /\ playlists' = CreateUpdate(playlists, name)
           /\ last' = Step("call", "create", newPlaylistName, Null, "")
           /\ UNCHANGED <<library, notice, tags, activePlaylistName, srvTags, srvPlaylists, load>>

handleCreatePlaylist(newPlaylistName) ==
  LET name == Trim(newPlaylistName)
  IN  IF CreateRejects(playlists, name)
      THEN Rejected("create", newPlaylistName, Null)
      ELSE CanIssue /\ Issue("create", name, Null) /\ Called("create", newPlaylistName, Null)

\* POST /api/playlists.  Saving a second document with the same name violates
\* the unique index: save() rejects inside the async route, no response is sent.
ServeCreate(i) ==
  /\ Pending(i, "create")
  /\ IF inflight[i].a = Empty
     THEN Served(i, "http") /\ UNCHANGED srvPlaylists
     ELSE IF inflight[i].a \in DOMAIN srvPlaylists
     THEN Served(i, "net") /\ UNCHANGED srvPlaylists
     ELSE /\ srvPlaylists' = Put(srvPlaylists, inflight[i].a, <<>>)
          /\ Served(i, "ok")
  /\ UNCHANGED srvTags

CreateDone(i) ==
  /\ Resolved(i, "create")
  /\ playlists' = CreateUpdate(playlists, inflight[i].a)
  /\ activePlaylistName' = inflight[i].a
  /\ Finished(i)
  /\ UNCHANGED tags

handleDeletePlaylist(nameToDelete) ==
  CanIssue /\ Issue("delete", nameToDelete, Null) /\ Called("delete", nameToDelete, Null)

\* DELETE /api/playlists/:name
ServeDelete(i) ==
  /\ Pending(i, "delete")
  /\ srvPlaylists' = Delete(srvPlaylists, inflight[i].a)
  /\ Served(i, "ok")
  /\ UNCHANGED srvTags

DeleteDone(i) ==
  /\ Resolved(i, "delete")
  /\ playlists' = DeleteUpdate(playlists, inflight[i].a)
  /\ activePlaylistName' =
       ActiveAfterDelete(inflight[i].act, inflight[i].names, inflight[i].a, activePlaylistName)
  /\ Finished(i)
  /\ UNCHANGED tags

handleSaveRenamePlaylist(oldName, newName) ==
  LET trimmedNewName == Trim(newName)
  IN  IF RenameRejects(playlists, oldName, trimmedNewName)
      THEN Rejected("rename", oldName, newName)
      ELSE CanIssue /\ Issue("rename", oldName, trimmedNewName) /\ Called("rename", oldName, newName)

\* PUT /api/playlists/:name.  A new name that another document has violates
\* the unique index: findOneAndUpdate rejects, no response is sent.
ServeRename(i) ==
  /\ Pending(i, "rename")
  /\ IF inflight[i].a \notin DOMAIN srvPlaylists
     THEN Served(i, "http") /\ UNCHANGED srvPlaylists
     ELSE IF inflight[i].b \in DOMAIN srvPlaylists /\ inflight[i].b # inflight[i].a
     THEN Served(i, "net") /\ UNCHANGED srvPlaylists
     ELSE /\ srvPlaylists' = RenameKey(srvPlaylists, inflight[i].a, inflight[i].b)
          /\ Served(i, "ok")
  /\ UNCHANGED srvTags

RenameDone(i) ==
  /\ Resolved(i, "rename")
  /\ playlists' = RenameUpdate(playlists, inflight[i].a, inflight[i].b)
  /\ activePlaylistName' =
       IF inflight[i].act = inflight[i].a THEN inflight[i].b ELSE activePlaylistName
  /\ Finished(i)
  /\ UNCHANGED tags

\* onClick={() => setActivePlaylistName(name)} of a listed playlist
SelectPlaylist(name) ==
  /\ activePlaylistName # name
  /\ activePlaylistName' = name
  /\ last' = Step("select", "select", name, Null, "")
  /\ UNCHANGED <<library, notice, tags, playlists, srvTags, srvPlaylists, load, inflight, hist, nOps>>

\* the ids of the loaded shots
ShotIdsOf(list) == {list[i].id : i \in 1..Len(list)}

\* variant: every reference is counted, also of an id counted before
MissingCountRepeated(imported, loaded) ==
  LET references == UNION {{<<k, i>> : i \in 1..Len(imported[k])} : k \in DOMAIN imported}
  IN  Cardinality({r \in references : imported[r[1]][r[2]] \notin ShotIdsOf(loaded)})

\* new Set(Object.values(imported).flat()), counted when not a loaded shot
MissingCount(imported, loaded) ==
  LET allImportedIds == UNION {Range(imported[k]) : k \in DOMAIN imported}
  IN  Cardinality({id \in allImportedIds : id \notin ShotIdsOf(loaded)})

\* reader.onload of handlePlaylistFileSelected
handlePlaylistFileSelected(doc) ==
  /\ IF ImportRejects(doc)
     THEN /\ last.ev # "reject"
          /\ last' = Step("reject", "importPlaylists", Null, Null, doc.root)
          /\ UNCHANGED <<notice, playlists, activePlaylistName, hist, nOps>>
     ELSE /\ nOps < MaxOps
          /\ nOps' = nOps + 1
          /\ playlists' = Merge(playlists, doc.val)
          /\ activePlaylistName' =
               IF Len(doc.keys) > 0 /\ Truthy(doc.keys[1]) THEN doc.keys[1] ELSE activePlaylistName
          /\ hist' = [hist EXCEPT !.clean = FALSE]
          /\ last' = Step("import", "importPlaylists", Null, Null, doc.root)
          /\ notice' = [kind |-> "imported", missing |-> MissingCount(doc.val, shots)]
  /\ UNCHANGED <<library, tags, srvTags, srvPlaylists, load, inflight>>

(***************************************************************************)
(* The scan of a folder: handleFilesSelected of App.tsx.                   *)
(***************************************************************************)
Dot == 46
SuffixJson == <<46, 106, 115, 111, 110>>  \* ".json"

\* ['jpg', 'jpeg', 'png', 'webp', 'gif', 'svg', 'avif']
ImageExtensions == {<<106, 112, 103>>, <<106, 112, 101, 103>>, <<112, 110, 103>>, <<119, 101, 98, 112>>, <<103, 105, 102>>, <<115, 118, 103>>, <<97, 118, 105, 102>>}
\* ['mp4', 'webm', 'ogv']
VideoExtensions == {<<109, 112, 52>>, <<119, 101, 98, 109>>, <<111, 103, 118>>}
\* ['json', 'txt']
NoteExtensions == {<<106, 115, 111, 110>>, <<116, 120, 116>>}

\* index of the last dot of a name, 0 when it has none
LastDot(name) ==
  IF \E i \in 1..Len(name) : name[i] = Dot
  THEN CHOOSE i \in 1..Len(name) : name[i] = Dot /\ \A j \in (i + 1)..Len(name) : name[j] # Dot
  ELSE 0

\* file.name.split('.').slice(0, -1).join('.')
BaseName(name) == IF LastDot(name) = 0 THEN Empty ELSE SubSeq(name, 1, LastDot(name) - 1)

\* file.name.split('.').pop()?.toLowerCase() || ""
Extension(name) == ToLowerCase(SubSeq(name, LastDot(name) + 1, Len(name)))

EndsWith(name, suffix) ==
  Len(name) >= Len(suffix) /\ SubSeq(name, Len(name) - Len(suffix) + 1, Len(name)) = suffix

\* the array of a group a file is pushed to
KindOf(name) ==
  IF Extension(name) \in ImageExtensions THEN "image"
  ELSE IF Extension(name) \in VideoExtensions THEN "video"
  ELSE IF Extension(name) \in NoteExtensions THEN "note"
  ELSE "ignored"

\* promptFile.name.endsWith('.json') ? 'json' : 'text'
NoteType(name) == IF EndsWith(name, SuffixJson) THEN "json" ELSE "text"

\* a.localeCompare(b) < 0 on names of letters, digits and dots: letters are
\* compared without their case first, and of two names that differ in case
\* only the one with the lower-case letter comes first
LocaleLess(a, b) ==
  \/ StrLess(ToLowerCase(a), ToLowerCase(b))
  \/ ToLowerCase(a) = ToLowerCase(b) /\ StrLess(b, a)

\* Array.prototype.sort is stable: an element goes after those it is not less than
RECURSIVE InsertByName(_, _)
InsertByName(x, l) ==
  IF l = <<>> THEN <<x>>
  ELSE IF LocaleLess(x.name, l[Len(l)].name)
       THEN InsertByName(x, SubSeq(l, 1, Len(l) - 1)) \o <<l[Len(l)]>>
       ELSE l \o <<x>>

\* variant: the arrays stay in the order the files were listed
SortByNameSkipped(l) == l

\* .sort((a, b) => a.name.localeCompare(b.name))
RECURSIVE SortByName(_)
SortByName(l) ==
  IF l = <<>> THEN <<>> ELSE InsertByName(l[Len(l)], SortByName(SubSeq(l, 1, Len(l) - 1)))

\* a File of the FileList: its name, the file it is (its path in the folder)
\* and whether text() will resolve
File(name, path, readable) == [name |-> name, path |-> path, readable |-> readable]

\* URL.createObjectURL(f): a reference to that file and to no other
ObjectUrl(f) == f.path
NoUrl == 0

MediaFile(f) == [name |-> f.name, url |-> ObjectUrl(f)]
PromptFile(f) == [name |-> f.name, content |-> f.path, type |-> NoteType(f.name)]

\* variant: a file without a base name opens a group like any other
RECURSIVE GroupIdsUnnamed(_)
GroupIdsUnnamed(files) ==
  IF files = <<>> THEN <<>>
  ELSE LET before == GroupIdsUnnamed(SubSeq(files, 1, Len(files) - 1))
           name == BaseName(files[Len(files)].name)
       IN  IF Includes(before, name) THEN before ELSE Append(before, name)

\* the keys of groupedFiles in insertion order
RECURSIVE GroupIds(_)
GroupIds(files) ==
  IF files = <<>> THEN <<>>
  ELSE LET before == GroupIds(SubSeq(files, 1, Len(files) - 1))
           name == BaseName(files[Len(files)].name)
       IN  IF name = Empty \/ Includes(before, name) THEN before ELSE Append(before, name)

\* one array of the group id, in the order the files were pushed
GroupFiles(files, id, kind) ==
  SelectSeq(files, LAMBDA f : BaseName(f.name) = id /\ KindOf(f.name) = kind)

\* variant: the saved covers are not consulted
CoverFileDefault(imageFiles, videoFiles, savedCovers, id) ==
  IF imageFiles # <<>> THEN <<imageFiles[1]>>
  ELSE IF videoFiles # <<>> THEN <<videoFiles[1]>>
  ELSE <<>>

\* the cover of a shot at scan time
CoverFile(imageFiles, videoFiles, savedCovers, id) ==
  LET allMediaFiles == imageFiles \o videoFiles
      saved == IF id \in DOMAIN savedCovers /\ Truthy(savedCovers[id])
               THEN FindIndex(allMediaFiles, LAMBDA f : f.name = savedCovers[id])
               ELSE 0
  IN  IF saved > 0 THEN <<allMediaFiles[saved]>>
      ELSE IF imageFiles # <<>> THEN <<imageFiles[1]>>
      ELSE IF videoFiles # <<>> THEN <<videoFiles[1]>>
      ELSE <<>>

\* what one entry of shotPromises resolves to: <<shot>>, or <<>> for null
ShotOf(files, id, savedCovers) ==
  LET images == GroupFiles(files, id, "image")
      videos == GroupFiles(files, id, "video")
      notes == GroupFiles(files, id, "note")
  IN  IF images = <<>> /\ videos = <<>> /\ notes = <<>> THEN <<>>
      ELSE IF \E i \in 1..Len(notes) : ~notes[i].readable THEN <<>>
      ELSE LET imageFiles == SortByName([i \in 1..Len(images) |-> MediaFile(images[i])])
               videoFiles == SortByName([i \in 1..Len(videos) |-> MediaFile(videos[i])])
               cover == CoverFile(imageFiles, videoFiles, savedCovers, id)
           IN  << [ id |-> id,
                    imageFiles |-> imageFiles,
                    videoFiles |-> videoFiles,
                    promptFiles |-> SortByName([i \in 1..Len(notes) |-> PromptFile(notes[i])]),
                    coverUrl |-> IF cover = <<>> THEN NoUrl ELSE cover[1].url,
                    coverType |-> IF cover = <<>> THEN "none"
                                  ELSE IF \E i \in 1..Len(videoFiles) : videoFiles[i].url = cover[1].url
                                       THEN "video" ELSE "image" ] >>

RECURSIVE InsertById(_, _)
InsertById(x, l) ==
  IF l = <<>> THEN <<x>>
  ELSE IF LocaleLess(x.id, l[Len(l)].id)
       THEN InsertById(x, SubSeq(l, 1, Len(l) - 1)) \o <<l[Len(l)]>>
       ELSE l \o <<x>>

\* .sort((a, b) => a.id.localeCompare(b.id))
RECURSIVE SortById(_)
SortById(l) ==
  IF l = <<>> THEN <<>> ELSE InsertById(l[Len(l)], SortById(SubSeq(l, 1, Len(l) - 1)))

RECURSIVE Flatten(_)
Flatten(ll) == IF ll = <<>> THEN <<>> ELSE Head(ll) \o Flatten(Tail(ll))

\* variant: one note that cannot be read empties the collection
ScanResultAllOrNothing(files, savedCovers) ==
  LET ids == GroupIds(files)
      all == [i \in 1..Len(ids) |-> ShotOf(files, ids[i], savedCovers)]
  IN  IF \E i \in 1..Len(files) : KindOf(files[i].name) = "note" /\ ~files[i].readable
      THEN <<>>
      ELSE SortById(Flatten(all))

\* loadedShots
ScanResult(files, savedCovers) ==
  LET ids == GroupIds(files)
  IN  SortById(Flatten([i \in 1..Len(ids) |-> ShotOf(files, ids[i], savedCovers)]))

(***************************************************************************)
(* Folders the user picks, as the browser lists their files.               *)
(***************************************************************************)
NameS1Png == <<115, 49, 46, 112, 110, 103>>  \* "s1.png"
NameS1PngUpper == <<115, 49, 46, 80, 78, 71>>  \* "s1.PNG"
NameS1Jpg == <<115, 49, 46, 106, 112, 103>>  \* "s1.jpg"
NameS1Mp4 == <<115, 49, 46, 109, 112, 52>>  \* "s1.mp4"
NameS1JsonUpper == <<115, 49, 46, 74, 83, 79, 78>>  \* "s1.JSON"
NameS1Txt == <<115, 49, 46, 116, 120, 116>>  \* "s1.txt"
NameS2Png == <<115, 50, 46, 112, 110, 103>>  \* "s2.png"
NameS2Txt == <<115, 50, 46, 116, 120, 116>>  \* "s2.txt"
NameS2Xyz == <<115, 50, 46, 120, 121, 122>>  \* "s2.xyz"
NameUpperS2Mp4 == <<83, 50, 46, 109, 112, 52>>  \* "S2.mp4"
NameDotPng == <<46, 112, 110, 103>>  \* ".png"
NameNoDot == <<112, 110, 103>>  \* "png"

\* one shot with an image, a video and a note named in upper case
FolderA == << File(NameS1Png, 1, TRUE), File(NameS1Mp4, 2, TRUE), File(NameS1JsonUpper, 3, TRUE) >>
\* two files named s1.png, from two subfolders, and a shot named in upper case
FolderB == << File(NameS1Png, 1, TRUE), File(NameUpperS2Mp4, 5, TRUE), File(NameS1Png, 4, TRUE) >>
\* the note of s2 cannot be read; s1 has a note only
\* and a file has no dot in its name
FolderC == << File(NameS2Txt, 7, FALSE), File(NameS2Png, 6, TRUE), File(NameS1Txt, 8, TRUE),
              File(NameNoDot, 13, TRUE) >>
\* a name without a base, an extension that is not listed, an extension in
\* upper case, two shots with media
FolderD == << File(NameDotPng, 10, TRUE), File(NameS2Xyz, 11, TRUE), File(NameS1PngUpper, 9, TRUE),
              File(NameS1Jpg, 12, TRUE), File(NameS1Mp4, 14, TRUE), File(NameS2Png, 6, TRUE) >>

Folders == {FolderA, FolderB, FolderC, FolderD}

\* the arguments setCover is tried with
CoverShots == {ShotS1, ShotS2}
CoverNames == {NameS1Png, NameS1Mp4, NameS2Png}

\* the object URLs the images and videos of a collection hold; those of
\* two scans differ, also for the same file
ObjectUrls(list, scan) ==
  UNION { {<<scan, f.url>> : f \in Range(list[k].imageFiles) \cup Range(list[k].videoFiles)}
          : k \in 1..Len(list) }

\* variant: no cleanup is registered
RevokeEffectMissing(held, list, scan) == held

\* the cleanup of the effect on [shots], run when shots is replaced: every url
\* of the collection that was replaced is revoked
RevokeEffect(held, list, scan) == held \ ObjectUrls(list, scan)

\* a number for the urls of the scan that installs its collection, other than
\* the one of the collection it replaces
NextScanNumber(scan) == IF scan = 1 THEN 2 ELSE 1

\* the text setError is called with (not modelled letter by letter)
ErrorMessage == <<1582, 1591, 1575>>

(***************************************************************************)
(* Scan and cover handlers.                                                *)
(***************************************************************************)
ScanRecord(files) == [files |-> files, phase |-> "saving", savedCovers |-> NoRecord]

\* the change event of the folder input, whose button is disabled while
\* isLoading
handleFilesSelected(files) ==
  /\ ~isLoading /\ Len(scans) < MaxScans
  /\ IF Len(files) = 0
     THEN /\ last.ev # "reject"
          /\ last' = Step("reject", "scan", Null, Null, "")
          /\ UNCHANGED scans
     ELSE /\ scans' = Append(scans, ScanRecord(files))
          /\ last' = Step("call", "scan", Null, Null, "")
  /\ UNCHANGED <<tags, playlists, activePlaylistName, srvTags, srvPlaylists, load, inflight,
                 hist, nOps, shots, selectedShot, shotCovers, isLoading, error, notice,
                 urls, view>>

\* variant: the scan does not read the saved covers
ScanBeginWithoutCovers(i) ==
  /\ scans[i].phase = "saving"
  /\ isLoading' = TRUE
  /\ error' = Null
  /\ shots' = <<>>
  /\ blobs' = RevokeEffect(blobs, shots, shotsScan)
  /\ shotsScan' = 0
  /\ selectedShot' = NoShot
  /\ selectedTags' = {}
  /\ scans' = [scans EXCEPT ![i].phase = "reading", ![i].savedCovers = NoRecord]
  /\ last' = Step("begin", "scan", Null, Null, "")
  /\ UNCHANGED <<tags, playlists, activePlaylistName, srvTags, srvPlaylists, load, inflight,
                 hist, nOps, shotCovers, notice, searchQuery, exportModalState, exported>>

\* saveDirectory has settled (a rejection is caught and logged): the state is
\* reset, the files are grouped and j9_shotCovers is read
ScanBegin(i) ==
  /\ scans[i].phase = "saving"
  /\ isLoading' = TRUE
  /\ error' = Null
  /\ shots' = <<>>
  /\ blobs' = RevokeEffect(blobs, shots, shotsScan)
  /\ shotsScan' = 0
  /\ selectedShot' = NoShot
  /\ selectedTags' = {}
  /\ scans' = [scans EXCEPT ![i].phase = "reading", ![i].savedCovers = shotCovers]
  /\ last' = Step("begin", "scan", Null, Null, "")
  /\ UNCHANGED <<tags, playlists, activePlaylistName, srvTags, srvPlaylists, load, inflight,
                 hist, nOps, shotCovers, notice, searchQuery, exportModalState, exported>>

\* every shot promise has settled
ScanDone(i) ==
  /\ scans[i].phase = "reading"
  /\ shots' = ScanResult(scans[i].files, scans[i].savedCovers)
  /\ shotsScan' = NextScanNumber(shotsScan)
  /\ blobs' = RevokeEffect(blobs, shots, shotsScan) \cup ObjectUrls(shots', shotsScan')
  /\ isLoading' = FALSE
  /\ scans' = RemoveAt(scans, i)
  /\ last' = Step("done", "scan", Null, Null, "ok")
  /\ UNCHANGED <<tags, playlists, activePlaylistName, srvTags, srvPlaylists, load, inflight,
                 hist, nOps, selectedShot, shotCovers, error, notice, view>>

\* variant: without the finally, a scan that throws leaves the flag set
ScanThrowKeepsLoading(i) ==
  /\ scans[i].phase = "reading"
  /\ error' = ErrorMessage
  /\ scans' = RemoveAt(scans, i)
  /\ last' = Step("throw", "scan", Null, Null, "")
  /\ UNCHANGED <<tags, playlists, activePlaylistName, srvTags, srvPlaylists, load, inflight,
                 hist, nOps, shots, selectedShot, shotCovers, isLoading, notice, urls, view>>

\* something in the outer try threw: the catch sets the message, the finally
\* clears the flag, setShots is not reached
ScanThrow(i) ==
  /\ scans[i].phase = "reading"
  /\ error' = ErrorMessage
  /\ isLoading' = FALSE
  /\ scans' = RemoveAt(scans, i)
  /\ last' = Step("throw", "scan", Null, Null, "")
  /\ UNCHANGED <<tags, playlists, activePlaylistName, srvTags, srvPlaylists, load, inflight,
                 hist, nOps, shots, selectedShot, shotCovers, notice, urls, view>>

\* onClick={() => setSelectedShot(shot)} of a listed shot
SelectShot(i) ==
  /\ selectedShot # <<shots[i]>>
  /\ selectedShot' = <<shots[i]>>
  /\ last' = Step("select", "selectShot", shots[i].id, Null, "")
  /\ UNCHANGED <<tags, playlists, activePlaylistName, srvTags, srvPlaylists, load, inflight,
                 hist, nOps, shots, shotCovers, isLoading, error, scans, notice, urls, view>>

WithCover(s, url, type) == [s EXCEPT !.coverUrl = url, !.coverType = type]

\* variant: a cover is taken for an image
NewCoverTypeImage(shot, coverMediaName) == "image"

\* shot.videoFiles.some(vf => vf.name === coverMediaName) ? 'video' : 'image'
NewCoverType(shot, coverMediaName) ==
  IF \E j \in 1..Len(shot.videoFiles) : shot.videoFiles[j].name = coverMediaName
  THEN "video" ELSE "image"

\* variant: the open shot is left as it is
SelectedAfterCoverKept(prevSelected, shotId, url, type) == prevSelected

\* the updater handed to setSelectedShot
SelectedAfterCover(prevSelected, shotId, url, type) ==
  IF prevSelected # NoShot /\ prevSelected[1].id = shotId
  THEN <<WithCover(prevSelected[1], url, type)>>
  ELSE prevSelected

handleSetCover(shotId, coverMediaName) ==
  LET at == FindIndex(shots, LAMBDA s : s.id = shotId)
      media == IF at = 0 THEN <<>> ELSE shots[at].imageFiles \o shots[at].videoFiles
      found == FindIndex(media, LAMBDA f : f.name = coverMediaName)
  IN  /\ IF found = 0
         THEN /\ last.ev # "reject"
              /\ last' = Step("reject", "setCover", shotId, coverMediaName, "")
              /\ UNCHANGED <<shots, selectedShot, shotCovers, blobs>>
         ELSE LET mediaFile == media[found]
                  newCoverType == NewCoverType(shots[at], coverMediaName)
              IN  /\ shotCovers' = Put(shotCovers, shotId, coverMediaName)
                  /\ shots' = [j \in 1..Len(shots) |->
                                 IF shots[j].id = shotId
                                 THEN WithCover(shots[j], mediaFile.url, newCoverType)
                                 ELSE shots[j]]
                  /\ selectedShot' =
                       SelectedAfterCover(selectedShot, shotId, mediaFile.url, newCoverType)
                  /\ blobs' = RevokeEffect(blobs, shots, shotsScan)
                  /\ last' = Step("cover", "setCover", shotId, coverMediaName, "")
      /\ UNCHANGED <<tags, playlists, activePlaylistName, srvTags, srvPlaylists, load, inflight,
                     hist, nOps, isLoading, error, scans, notice, shotsScan, view>>

(***************************************************************************)
(* Search, tag filter and export.                                          *)
(***************************************************************************)
\* await promptFile.text(): the characters of the note at that path
Text(path) ==
  CASE path = 15 -> <<98>>          \* "b"
    [] path = 16 -> <<67>>          \* "C"
    [] path = 17 -> <<120, 32>>     \* "x "
    [] OTHER -> Empty

\* String.prototype.includes
StrIncludes(s, q) == \E i \in 0..(Len(s) - Len(q)) : SubSeq(s, i + 1, i + Len(q)) = q

\* Array.prototype.join(' ')
RECURSIVE Join(_)
Join(l) ==
  IF l = <<>> THEN Empty
  ELSE IF Len(l) = 1 THEN l[1]
  ELSE l[1] \o Blank \o Join(Tail(l))

\* variant: a shot is kept when it has one of the selected tags
TagFilterKeepsAny(shotTags, selected) == \E t \in selected : Includes(shotTags, t)

\* Array.from(selectedTags).every(selectedTag => shotTags.includes(selectedTag))
TagFilterKeeps(shotTags, selected) == \A t \in selected : Includes(shotTags, t)

\* shotsToFilter after the tag filter
TagFiltered(list, tagsOf, selected) ==
  IF selected # {}
  THEN SelectSeq(list, LAMBDA shot : TagFilterKeeps(Get(tagsOf, shot.id), selected))
  ELSE list

\* variant: the query is used as it was typed
LowerCaseQueryAsTyped(query) == query

\* searchQuery.toLowerCase().trim()
LowerCaseQuery(query) == Trim(ToLowerCase(query))

\* shot.promptFiles.map(p => p.content).join(' ').toLowerCase()
PromptContent(shot) ==
  ToLowerCase(Join([j \in 1..Len(shot.promptFiles) |-> Text(shot.promptFiles[j].content)]))

QueryKeeps(shot, shotTags, lowerCaseQuery) ==
  \/ StrIncludes(ToLowerCase(shot.id), lowerCaseQuery)
  \/ StrIncludes(PromptContent(shot), lowerCaseQuery)
  \/ \E j \in 1..Len(shotTags) : StrIncludes(ToLowerCase(shotTags[j]), lowerCaseQuery)

Filtered(list, tagsOf, selected, query) ==
  LET lowerCaseQuery == LowerCaseQuery(query)
      shotsToFilter == TagFiltered(list, tagsOf, selected)
  IN  IF lowerCaseQuery = Empty THEN shotsToFilter
      ELSE SelectSeq(shotsToFilter,
                     LAMBDA shot : QueryKeeps(shot, Get(tagsOf, shot.id), lowerCaseQuery))

\* the memo the list of shots is rendered from
filteredShots == Filtered(shots, tags, selectedTags, searchQuery)

\* onChange of the search input
setSearchQuery(query) ==
  /\ query # searchQuery
  /\ searchQuery' = query
  /\ last' = Step("set", "search", Null, Null, "")
  /\ UNCHANGED <<tags, playlists, activePlaylistName, srvTags, srvPlaylists, load, inflight,
                 hist, nOps, shots, selectedShot, shotCovers, isLoading, error, scans, notice,
                 urls, selectedTags, exportModalState, exported>>

\* onClick of a tag button of the filter bar
handleTagFilterClick(tag) ==
  /\ selectedTags' = IF tag \in selectedTags THEN selectedTags \ {tag} ELSE selectedTags \cup {tag}
  /\ last' = Step("set", "tagFilter", tag, Null, "")
  /\ UNCHANGED <<tags, playlists, activePlaylistName, srvTags, srvPlaylists, load, inflight,
                 hist, nOps, shots, selectedShot, shotCovers, isLoading, error, scans, notice,
                 urls, searchQuery, exportModalState, exported>>

handleOpenExportModal(type) ==
  /\ IF \/ type = "playlists" /\ DOMAIN playlists = {}
        \/ type = "tags" /\ allTags = {}
     THEN /\ last.ev # "reject"
          /\ last' = Step("reject", "openExport", Null, Null, type)
          /\ UNCHANGED exportModalState
     ELSE /\ exportModalState # type
          /\ exportModalState' = type
          /\ last' = Step("open", "openExport", Null, Null, type)
  /\ UNCHANGED <<tags, playlists, activePlaylistName, srvTags, srvPlaylists, load, inflight,
                 hist, nOps, shots, selectedShot, shotCovers, isLoading, error, scans, notice,
                 urls, searchQuery, selectedTags, exported>>

\* the names the dialog lists for what it is open for
ExportItems ==
  IF exportModalState = "tags" THEN allTags
  ELSE IF exportModalState = "playlists" THEN DOMAIN playlists
  ELSE {}

ExportedPlaylists(lists, itemsToExport) ==
  [name \in {n \in itemsToExport : HasList(lists, n)} |-> lists[name]]

\* variant: each exported list holds the selected tags only
ExportedTagsSelectedOnly(tagsOf, itemsToExport) ==
  LET relevantShotIds ==
        {shotId \in DOMAIN tagsOf : \E j \in 1..Len(tagsOf[shotId]) : tagsOf[shotId][j] \in itemsToExport}
  IN  [shotId \in relevantShotIds |-> SelectSeq(tagsOf[shotId], LAMBDA t : t \in itemsToExport)]

ExportedTags(tagsOf, itemsToExport) ==
  LET relevantShotIds ==
        {shotId \in DOMAIN tagsOf : \E j \in 1..Len(tagsOf[shotId]) : tagsOf[shotId][j] \in itemsToExport}
  IN  [shotId \in relevantShotIds |-> tagsOf[shotId]]

\* onExport of the dialog, with the items ticked in it
handlePerformExport(itemsToExport) ==
  /\ IF exportModalState = "closed" \/ itemsToExport = {}
     THEN /\ last.ev # "reject"
          /\ last' = Step("reject", "export", Null, Null, exportModalState)
          /\ UNCHANGED <<exportModalState, exported>>
     ELSE /\ exported' =
               IF exportModalState = "playlists"
               THEN [fileName |-> "J9-playlists-selection.json",
                     data |-> ExportedPlaylists(playlists, itemsToExport)]
               ELSE [fileName |-> "J9-tags-content-selection.json",
                     data |-> ExportedTags(tags, itemsToExport)]
          /\ exportModalState' = "closed"
          /\ last' = Step("export", "export", Null, Null, exportModalState)
  /\ UNCHANGED <<tags, playlists, activePlaylistName, srvTags, srvPlaylists, load, inflight,
                 hist, nOps, shots, selectedShot, shotCovers, isLoading, error, scans, notice,
                 urls, searchQuery, selectedTags>>

\* onClose of the dialog
CloseExportModal ==
  /\ exportModalState # "closed"
  /\ exportModalState' = "closed"
  /\ last' = Step("close", "export", Null, Null, "")
  /\ UNCHANGED <<tags, playlists, activePlaylistName, srvTags, srvPlaylists, load, inflight,
                 hist, nOps, shots, selectedShot, shotCovers, isLoading, error, scans, notice,
                 urls, searchQuery, selectedTags, exported>>

(***************************************************************************)
(* Initial states and specifications.                                      *)
(***************************************************************************)
\* contents the store can hold when the client starts
InitTagStores ==
  { <<>>,
    <<Doc(ShotS1, TagUA), Doc(ShotS2, TagLc), Doc(ShotS2, TagLa)>> }

InitPlaylistStores ==
  { NoRecord,
    [k \in {ListP} |-> <<ShotS1>>] }

InitCommon ==
  /\ tags = NoRecord
  /\ playlists = NoRecord
  /\ load = [st |-> "pending", gotPl |-> FALSE, gotTg |-> FALSE, pl |-> NoRecord, tg |-> NoRecord]
  /\ inflight = <<>>
  /\ last = Step("init", "init", Null, Null, "")
  /\ hist = [clean |-> TRUE, serial |-> TRUE]
  /\ nOps = 0
  /\ shots = <<>>
  /\ selectedShot = NoShot
  /\ isLoading = FALSE
  /\ error = Null
  /\ scans = <<>>
  /\ notice = [kind |-> "none", missing |-> 0]
  /\ blobs = {}
  /\ shotsScan = 0
  /\ searchQuery = Empty
  /\ selectedTags = {}
  /\ exportModalState = "closed"
  /\ exported = NoDownload

\* what localStorage can hold under j9_shotCovers when the client starts
InitCovers == { NoRecord, [k \in {ShotS1} |-> NameS1PngUpper] }

Init ==
  /\ InitCommon
  /\ shotCovers \in InitCovers
  /\ activePlaylistName \in {Null, ListP}
  /\ srvTags \in InitTagStores
  /\ srvPlaylists \in InitPlaylistStores

Startup == ServeFetchPlaylists \/ ServeFetchTags \/ LoadDone \/ LoadFail

Network == \E i \in 1..Len(inflight) : NetFail(i)

TagCalls ==
  /\ Ready
  /\ \/ \E shotId \in ShotIds, tag \in RawTags : handleAddTag(shotId, tag)
     \/ \E shotId \in DOMAIN tags : \E tag \in Range(tags[shotId]) \cap PickedTags : handleRemoveTag(shotId, tag)
     \/ \E oldTag \in allTags \cap PickedTags, newTag \in RawTags : handleRenameTag(oldTag, newTag)
     \/ \E doc \in TagDocs : handleTagFileSelected(doc)

TagRoutes ==
  \E i \in 1..Len(inflight) : ServeAddTag(i) \/ ServeRemoveTag(i) \/ ServeRenameTag(i)

TagContinuations ==
  \E i \in 1..Len(inflight) : AddTagDone(i) \/ RemoveTagDone(i) \/ RenameTagDone(i)

PlaylistCalls ==
  /\ Ready
  /\ \/ \E shotId \in ShotIds : handleTogglePlaylist(shotId)
     \/ \E name \in RawNames : handleCreatePlaylist(name)
     \/ \E name \in DOMAIN playlists : handleDeletePlaylist(name)
     \/ \E oldName \in DOMAIN playlists, newName \in RawNames : handleSaveRenamePlaylist(oldName, newName)
     \/ \E name \in DOMAIN playlists : SelectPlaylist(name)
     \/ \E doc \in PlaylistDocs : handlePlaylistFileSelected(doc)

PlaylistRoutes ==
  \E i \in 1..Len(inflight) :
    ServeAddShot(i) \/ ServeRemoveShot(i) \/ ServeCreate(i) \/ ServeDelete(i) \/ ServeRename(i)

PlaylistContinuations ==
  \E i \in 1..Len(inflight) : Thrown(i) \/ ToggleDone(i) \/ CreateDone(i) \/ DeleteDone(i) \/ RenameDone(i)

NextTags == Startup \/ Network \/ TagCalls \/ TagRoutes \/ TagContinuations

NextPlaylists == Startup \/ Network \/ PlaylistCalls \/ PlaylistRoutes \/ PlaylistContinuations

Next == NextTags \/ NextPlaylists

\* the two file imports alone, on every kind of file
Imports ==
  /\ Ready
  /\ \/ \E doc \in TagFiles : handleTagFileSelected(doc)
     \/ \E doc \in PlaylistFiles : handlePlaylistFileSelected(doc)

NextImport == Startup \/ Imports

SpecImport == Init /\ [][NextImport]_vars

\* the tag store alone: no playlist exists and none is made
InitTags == Init /\ activePlaylistName = Null /\ srvPlaylists = NoRecord /\ shotCovers = NoRecord

\* the playlist store alone
InitPlaylists == Init /\ srvTags = <<>> /\ shotCovers = NoRecord

\* the library alone: folders are scanned, shots opened and covers chosen
\* the folder picked while another scan is under way
OverlapFolders == {FolderA}

\* the input fires no change event for a selection it holds already
ScanCalls ==
  \E files \in (IF scans = <<>> THEN Folders \cup {<<>>}
                ELSE OverlapFolders \ {scans[i].files : i \in 1..Len(scans)}) :
    handleFilesSelected(files)

ScanSteps == \E i \in 1..Len(scans) : ScanBegin(i) \/ ScanDone(i) \/ ScanThrow(i)

CoverCalls ==
  \/ \E i \in 1..Len(shots) : SelectShot(i)
  \/ \E shotId \in CoverShots, name \in CoverNames : handleSetCover(shotId, name)

NextScan == ScanCalls \/ ScanSteps \/ CoverCalls

InitScan ==
  Init /\ activePlaylistName = Null /\ srvTags = <<>> /\ srvPlaylists = NoRecord

SpecScan == InitScan /\ [][NextScan]_vars

\* the reads of a scan settle: a scan that is reading gets to its end
ScanEnds(i) == i <= Len(scans) /\ (ScanThrow(i) \/ ScanDone(i))


\* the library and the playlist files imported against it
LibraryImports == Ready /\ \E doc \in PlaylistFiles : handlePlaylistFileSelected(doc)

NextLibrary == Startup \/ ScanCalls \/ ScanSteps \/ LibraryImports

InitLibrary == InitScan /\ shotCovers = NoRecord

SpecLibrary == InitLibrary /\ [][NextLibrary]_vars

\* the scans alone, each getting to its end
NextScanOnly == ScanCalls \/ ScanSteps

SpecScanFair ==
  InitLibrary /\ [][NextScanOnly]_vars /\ \A i \in 1..MaxScans : WF_vars(ScanEnds(i))

\* two notes for s1, "C" in s1.JSON and "b" in s1.txt, a note "x " for s2
FolderE == << File(NameS2Txt, 17, TRUE), File(NameS1Txt, 15, TRUE), File(NameS1JsonUpper, 16, TRUE),
              File(NameS1Png, 1, TRUE) >>
SearchFolders == {FolderC, FolderE}

QueryPaddedS1 == <<32, 83, 49>>   \* " S1"
QueryJoined == <<99, 66>>         \* "cB"
QuerySpaced == <<67, 32, 98>>     \* "C b"
QueryX == <<120>>                 \* "x"
SearchQueries == {Empty, Blank, QueryPaddedS1, TagUA, QueryJoined, QuerySpaced, QueryX}

\* the library with its tags, searched and exported while no scan is under way
SearchCalls ==
  /\ Ready /\ scans = <<>>
  /\ \/ \E files \in SearchFolders : handleFilesSelected(files)
     \/ \E query \in SearchQueries : setSearchQuery(query)
     \/ \E tag \in allTags : handleTagFilterClick(tag)
     \/ \E type \in {"playlists", "tags"} : handleOpenExportModal(type)
     \/ \E itemsToExport \in SUBSET ExportItems : handlePerformExport(itemsToExport)
     \/ CloseExportModal

NextSearch == Startup \/ SearchCalls \/ (\E i \in 1..Len(scans) : ScanBegin(i) \/ ScanDone(i))

\* the stores hold tags and playlists when the client starts, or nothing
InitSearch == Init /\ activePlaylistName = Null /\ shotCovers = NoRecord

SpecSearch == InitSearch /\ [][NextSearch]_vars

SpecTags == InitTags /\ [][NextTags]_vars

SpecPlaylists == InitPlaylists /\ [][NextPlaylists]_vars

Spec == Init /\ [][Next]_vars

(***************************************************************************)
(* Vocabulary of the properties.                                           *)
(***************************************************************************)
Count(l, x) == Cardinality({i \in 1..Len(l) : l[i] = x})

SameElements(l, m) == \A x \in Range(l) \cup Range(m) : Count(l, x) = Count(m, x)

Ascending(l) == \A i \in 1..(Len(l) - 1) : ~StrLess(l[i + 1], l[i])

CountIgnoreCase(l, x) == Cardinality({i \in 1..Len(l) : EqIgnoreCase(l[i], x)})

LocalState == <<tags, playlists, activePlaylistName>>

\* the step taken is the continuation of handler op, whose fetch settled with st
Continued(op, sts) == last'.ev = "done" /\ last'.op = op /\ last'.st \in sts /\ vars' # vars

\* the step taken is a call of handler op
Invoked(op) == last'.ev \in {"call", "reject"} /\ last'.op = op

Quiet == load.st = "done" /\ inflight = <<>>

(***************************************************************************)
(* C1: when the remote call of a tag or playlist operation fails (the      *)
(* request is not delivered, or the service answers not-found or           *)
(* bad-request), the operation leaves tags, playlists and the active       *)
(* playlist as they were.                                                  *)
(***************************************************************************)
C1_FailedCallLeavesLocalState ==
  [][(last'.ev = "done" /\ last'.op # "load" /\ last'.st \in {"net", "http"} /\ vars' # vars)
       => UNCHANGED LocalState]_vars

(***************************************************************************)
(* C2: starting from tags equal to the store's, after addTag, removeTag    *)
(* and renameTag calls made one after the other and all answered with      *)
(* success, every shot has locally the tag values that fetchAll returns.   *)
(***************************************************************************)
C2_TagsEqualRemote ==
  (Quiet /\ hist.clean /\ hist.serial)
    => \A shotId \in DOMAIN tags \cup DOMAIN TagsResult(srvTags) :
         Range(Get(tags, shotId)) = Range(Get(TagsResult(srvTags), shotId))

(***************************************************************************)
(* C3: starting from playlists equal to the store's, after any             *)
(* interleaving of create, rename, delete and toggleShot whose remote      *)
(* calls have all been answered with success, the local mapping of names   *)
(* to shot-id sets equals the store's.                                     *)
(***************************************************************************)
C3_PlaylistsEqualRemote ==
  (Quiet /\ hist.clean)
    => /\ DOMAIN playlists = DOMAIN srvPlaylists
       /\ \A name \in DOMAIN playlists :
            Range(ListOf(playlists, name)) = Range(srvPlaylists[name])

(***************************************************************************)
(* C4: no shot ever has more than 20 tags in the local mapping.            *)
(***************************************************************************)
C4_AtMostTagLimit == \A shotId \in DOMAIN tags : Len(tags[shotId]) <= TagLimit

(***************************************************************************)
(* C5: no local tag list ever holds two entries that are equal when case   *)
(* is ignored.                                                             *)
(***************************************************************************)
C5_NoDuplicateIgnoringCase ==
  \A shotId \in DOMAIN tags :
    \A i, j \in 1..Len(tags[shotId]) :
      i # j => ~EqIgnoreCase(tags[shotId][i], tags[shotId][j])

(***************************************************************************)
(* C6: the local tags mapping never has a key whose tag list is empty.     *)
(***************************************************************************)
C6_NoEmptyEntry == \A shotId \in DOMAIN tags : tags[shotId] # <<>>

(***************************************************************************)
(* C7: addTag issues no request and leaves tags unchanged when the trimmed *)
(* tag is empty, when the shot has 20 tags already, or when a tag of the   *)
(* shot equals the trimmed tag ignoring case; otherwise it issues exactly  *)
(* one add request carrying the trimmed tag, and once that resolves the    *)
(* tag list of the shot is the previous list plus the trimmed tag, in      *)
(* ascending order.                                                        *)
(***************************************************************************)
C7_Refused(shotId, tag) ==
  \/ Trim(tag) = Empty
  \/ Len(Get(tags, shotId)) >= 20
  \/ \E i \in 1..Len(Get(tags, shotId)) : EqIgnoreCase(Get(tags, shotId)[i], Trim(tag))

C7_AtCall ==
  Invoked("addTag") =>
    /\ tags' = tags
    /\ IF C7_Refused(last'.a, last'.b)
       THEN inflight' = inflight
       ELSE /\ Len(inflight') = Len(inflight) + 1
            /\ SubSeq(inflight', 1, Len(inflight)) = inflight
            /\ inflight'[Len(inflight')].op = "addTag"
            /\ inflight'[Len(inflight')].a = last'.a
            /\ inflight'[Len(inflight')].b = Trim(last'.b)
            /\ inflight'[Len(inflight')].st = "req"

C7_AtResolution ==
  Continued("addTag", {"ok", "http"}) =>
    /\ last'.a \in DOMAIN tags'
    /\ SameElements(tags'[last'.a], Append(Get(tags, last'.a), last'.b))
    /\ Ascending(tags'[last'.a])
    /\ \A shotId \in (DOMAIN tags \cup DOMAIN tags') \ {last'.a} :
         shotId \in DOMAIN tags /\ shotId \in DOMAIN tags' /\ tags'[shotId] = tags[shotId]

C7_AddTag == [][C7_AtCall /\ C7_AtResolution]_vars

\* " b " was added, trimmed, to a shot that had other tags
C7_Witness ==
  /\ last = Step("done", "addTag", ShotS2, TagLb, "ok")
  /\ tags[ShotS2] = <<TagLa, TagLb, TagLc>>

(***************************************************************************)
(* C8: after renameTag(A, B) succeeds, a shot that had both A and B        *)
(* (ignoring case, at different positions) has no tag equal to A and       *)
(* exactly one tag equal to B, ignoring case, and its other tags are       *)
(* unchanged.                                                              *)
(***************************************************************************)
C8_HadBoth(l, oldTag, newTag) ==
  \E i, j \in 1..Len(l) : i # j /\ EqIgnoreCase(l[i], oldTag) /\ EqIgnoreCase(l[j], newTag)

C8_RenameMerges ==
  [][Continued("renameTag", {"ok"}) =>
       \A shotId \in DOMAIN tags :
         C8_HadBoth(tags[shotId], last'.a, last'.b) =>
           /\ shotId \in DOMAIN tags'
           /\ CountIgnoreCase(tags'[shotId], last'.a) = 0
           /\ CountIgnoreCase(tags'[shotId], last'.b) = 1
           /\ \A x \in Range(tags[shotId]) :
                ~EqIgnoreCase(x, last'.a) => Count(tags'[shotId], x) = Count(tags[shotId], x)]_vars

(***************************************************************************)
(* C9: after renameTag(oldTag, newTag) succeeds, no shot key is added or   *)
(* removed, a shot without a match for oldTag (ignoring case) keeps its    *)
(* tag list, and a shot that had oldTag and not newTag has the same number *)
(* of tags, with oldTag replaced by the trimmed newTag, in ascending order.*)
(***************************************************************************)
C9_Replaced(before, after, oldTag, newTag) ==
  \E i \in 1..Len(before) :
    /\ EqIgnoreCase(before[i], oldTag)
    /\ SameElements(after, [before EXCEPT ![i] = newTag])

C9_RenameFrame ==
  [][Continued("renameTag", {"ok"}) =>
       /\ DOMAIN tags' = DOMAIN tags
       /\ \A shotId \in DOMAIN tags :
            /\ CountIgnoreCase(tags[shotId], last'.a) = 0 => tags'[shotId] = tags[shotId]
            /\ (CountIgnoreCase(tags[shotId], last'.a) > 0
                  /\ CountIgnoreCase(tags[shotId], last'.b) = 0)
                 => /\ Len(tags'[shotId]) = Len(tags[shotId])
                    /\ C9_Replaced(tags[shotId], tags'[shotId], last'.a, last'.b)
                    /\ Ascending(tags'[shotId])
                    /\ last'.b = Trim(last'.b)]_vars

\* "c" was renamed to "b": s2 went from <<c, a>> to <<a, b>>, s1 kept <<A>>
C9_Witness ==
  /\ last = Step("done", "renameTag", TagLc, TagLb, "ok")
  /\ ShotS1 \in DOMAIN tags /\ tags[ShotS1] = <<TagUA>>
  /\ ShotS2 \in DOMAIN tags /\ tags[ShotS2] = <<TagLa, TagLb>>

(***************************************************************************)
(* C10: renameTag issues no request and leaves tags unchanged when the     *)
(* trimmed newTag is empty or equals oldTag ignoring case.                 *)
(***************************************************************************)
C10_RenameRefused ==
  [][(Invoked("renameTag")
        /\ (Trim(last'.b) = Empty \/ EqIgnoreCase(last'.a, Trim(last'.b))))
       => inflight' = inflight /\ tags' = tags]_vars

\* renaming "a" to "A" was refused
C10_Witness ==
  /\ last = Step("reject", "renameTag", TagLa, TagUA, "")
  /\ inflight = <<>>
  /\ \E shotId \in DOMAIN tags : Includes(tags[shotId], TagLa)

(***************************************************************************)
(* C11: after removeTag(shotId, tag) succeeds, the shot's list is the      *)
(* previous list without the elements exactly equal to tag, in the same    *)
(* relative order; the lists of all other shots are unchanged; when the    *)
(* resulting list is empty the shot's key is deleted from the mapping.     *)
(***************************************************************************)
RECURSIVE C11_Without(_, _)
C11_Without(l, x) ==
  IF l = <<>> THEN <<>>
  ELSE IF Head(l) = x THEN C11_Without(Tail(l), x)
  ELSE <<Head(l)>> \o C11_Without(Tail(l), x)

C11_RemoveTag ==
  [][Continued("removeTag", {"ok"}) =>
       LET shotId == last'.a
           rest == C11_Without(Get(tags, shotId), last'.b)
       IN  /\ \A other \in (DOMAIN tags \cup DOMAIN tags') \ {shotId} :
                other \in DOMAIN tags /\ other \in DOMAIN tags' /\ tags'[other] = tags[other]
           /\ IF rest = <<>> THEN shotId \notin DOMAIN tags'
              ELSE shotId \in DOMAIN tags' /\ tags'[shotId] = rest]_vars

\* "c" was removed from s2: "a" stays; "a" was removed from s1, which held
\* "A" and "a": "A" stays
C11_Witness ==
  /\ last.ev = "done" /\ last.op = "removeTag" /\ last.st = "ok"
  /\ \/ last.a = ShotS2 /\ last.b = TagLc /\ Get(tags, ShotS2) = <<TagLa>> /\ ShotS1 \in DOMAIN tags
     \/ last.a = ShotS1 /\ last.b = TagLa /\ Includes(Get(tags, ShotS1), TagUA)

\* the only tag of s1 was removed: s1 has no key, s2 keeps its list
C11_WitnessKeyDeleted ==
  /\ last.ev = "done" /\ last.op = "removeTag" /\ last.st = "ok" /\ last.a = ShotS1
  /\ ShotS1 \notin DOMAIN tags /\ ShotS2 \in DOMAIN tags

(***************************************************************************)
(* C12: no tag or playlist operation changes the local mappings before     *)
(* its own remote call has resolved: tags and playlists change only in the *)
(* step that takes an answered request of the operation out of flight      *)
(* (or at the startup load, or in an import, which make no such call).     *)
(***************************************************************************)
C12_OwnCallResolved ==
  \E i \in 1..Len(inflight) :
    /\ inflight[i].st \in {"ok", "http"}
    /\ inflight' = RemoveAt(inflight, i)
    /\ last' = Step("done", inflight[i].op, inflight[i].a, inflight[i].b, inflight[i].st)

C13_Completes == last'.ev = "import" \/ (last'.ev = "done" /\ last'.op # "load")

C13_Installed(before, after) == {k \in DOMAIN after : k \notin DOMAIN before \/ after[k] # before[k]}

C13_MirroredToStore ==
  [][C13_Completes =>
       /\ \A shotId \in C13_Installed(tags, tags') :
            /\ shotId \in DOMAIN TagsResult(srvTags') \/ tags'[shotId] = <<>>
            /\ Range(tags'[shotId]) = Range(Get(TagsResult(srvTags'), shotId))
       /\ \A name \in C13_Installed(playlists, playlists') :
            /\ name \in DOMAIN srvPlaylists'
            /\ Range(ListOf(playlists', name)) = Range(srvPlaylists'[name])]_vars

(***************************************************************************)
(* C14: create(name) issues no remote call and leaves the playlists and    *)
(* the active playlist unchanged when the trimmed name is empty or a       *)
(* playlist with exactly that name exists; otherwise it issues the create  *)
(* for the trimmed name and, after that call resolves, the mapping has the *)
(* trimmed name with an empty shot list and every other playlist as        *)
(* before.                                                                 *)
(***************************************************************************)
\* a playlist is a name that has a shot list
PlaylistExists(lists, name) == name \in DOMAIN lists /\ lists[name] # Undefined

C14_AtCall ==
  Invoked("create") =>
    LET name == Trim(last'.a)
    IN  IF name = Empty \/ PlaylistExists(playlists, name)
        THEN last'.ev = "reject" /\ inflight' = inflight
               /\ UNCHANGED <<playlists, activePlaylistName>>
        ELSE last'.ev = "call" /\ Len(inflight') = Len(inflight) + 1
               /\ SubSeq(inflight', 1, Len(inflight)) = inflight
               /\ inflight'[Len(inflight')].op = "create"
               /\ inflight'[Len(inflight')].a = name

C14_AtResolution ==
  Continued("create", {"ok", "http"}) =>
    LET name == last'.a
    IN  /\ DOMAIN playlists' = DOMAIN playlists \cup {name}
        /\ playlists'[name] = <<>>
        /\ \A other \in DOMAIN playlists \ {name} : playlists'[other] = playlists[other]

C14_WitnessRefused ==
  /\ last.ev = "reject" /\ last.op = "create" /\ last.a = ListP
  /\ ListP \in DOMAIN playlists

(***************************************************************************)
(* C15: rename(oldName, newName) issues no remote call and changes nothing *)
(* when the trimmed newName is empty, equals oldName, or names another     *)
(* existing playlist; otherwise, after success, oldName is absent, the     *)
(* trimmed newName has exactly the shot ids oldName had, every other       *)
(* playlist is unchanged, and the active playlist is newName if it was     *)
(* oldName and is otherwise unchanged.                                     *)
(***************************************************************************)
C15_AtCall ==
  Invoked("rename") =>
    LET oldName == last'.a
        newName == Trim(last'.b)
    IN  IF newName = Empty \/ newName = oldName \/ PlaylistExists(playlists, newName)
        THEN last'.ev = "reject" /\ inflight' = inflight
               /\ UNCHANGED <<playlists, activePlaylistName>>
        ELSE last'.ev = "call" /\ Len(inflight') = Len(inflight) + 1
               /\ SubSeq(inflight', 1, Len(inflight)) = inflight
               /\ inflight'[Len(inflight')].op = "rename"
               /\ inflight'[Len(inflight')].a = oldName
               /\ inflight'[Len(inflight')].b = newName

C15_Moved ==
  Continued("rename", {"ok"}) =>
    LET oldName == last'.a
        newName == last'.b
    IN  /\ oldName \notin DOMAIN playlists'
        /\ newName \in DOMAIN playlists'
        /\ ListOf(playlists', newName) = ListOf(playlists, oldName)
        /\ \A other \in (DOMAIN playlists \cup DOMAIN playlists') \ {oldName, newName} :
             other \in DOMAIN playlists /\ other \in DOMAIN playlists'
               /\ playlists'[other] = playlists[other]

\* "it was oldName": when rename was called, which the request remembers
C15_ActiveFollows ==
  Continued("rename", {"ok"}) =>
    \E i \in 1..Len(inflight) :
      /\ inflight[i].op = "rename" /\ inflight[i].a = last'.a /\ inflight[i].b = last'.b
      /\ inflight' = RemoveAt(inflight, i)
      /\ activePlaylistName' =
           IF inflight[i].act = last'.a THEN last'.b ELSE activePlaylistName

C15_WitnessRefused ==
  /\ last.ev = "reject" /\ last.op = "rename" /\ last.a = ListP /\ last.b = ListQPadded
  /\ ListQ \in DOMAIN playlists

(***************************************************************************)
(* C16: after delete(name) succeeds, name is absent from the mapping and   *)
(* every other playlist is unchanged; if name is the active playlist when  *)
(* the delete completes, the active playlist becomes the first remaining   *)
(* name in sorted order, or none when no playlist remains; if it is not,   *)
(* the active playlist is unchanged.                                       *)
(***************************************************************************)
C16_Delete ==
  [][Continued("delete", {"ok"}) =>
       LET name == last'.a
           remainingNames == SortedNames(DOMAIN playlists')
       IN  /\ DOMAIN playlists' = DOMAIN playlists \ {name}
           /\ \A other \in DOMAIN playlists' : playlists'[other] = playlists[other]
           /\ activePlaylistName' =
                IF activePlaylistName = name
                THEN IF Len(remainingNames) > 0 THEN remainingNames[1] ELSE Null
                ELSE activePlaylistName]_vars

(***************************************************************************)
(* C17: a completed toggle of a shot adds its id to the playlist when it   *)
(* is absent and removes it when present, leaving the other playlists      *)
(* unchanged; in every reachable state no playlist's list holds the same   *)
(* id twice; two successive completed toggles of the same shot restore the *)
(* playlist's membership.                                                  *)
(***************************************************************************)
C17_Toggled == Continued("addShot", {"ok"}) \/ Continued("removeShot", {"ok"})

C17_Members(lists, name) == Range(ListOf(lists, name))

C17_Flipped(lists, name, shotId) ==
  IF shotId \in C17_Members(lists, name)
  THEN C17_Members(lists, name) \ {shotId}
  ELSE C17_Members(lists, name) \cup {shotId}

C17_AddsOrRemoves ==
  C17_Toggled =>
    /\ C17_Members(playlists', last'.a) = C17_Flipped(playlists, last'.a, last'.b)
    /\ \A other \in (DOMAIN playlists \cup DOMAIN playlists') \ {last'.a} :
         other \in DOMAIN playlists /\ other \in DOMAIN playlists'
           /\ playlists'[other] = playlists[other]

\* the step before was a completed toggle of the same shot in the same
\* playlist: the membership before it is the present one flipped back
C17_TwiceRestores ==
  (C17_Toggled /\ last.ev = "done" /\ last.op \in {"addShot", "removeShot"} /\ last.st = "ok"
     /\ last.a = last'.a /\ last.b = last'.b)
    => C17_Members(playlists', last'.a) = C17_Flipped(playlists, last'.a, last'.b)

C17_NoDuplicateIds ==
  \A name \in DOMAIN playlists : \A id \in C17_Members(playlists, name) :
    Count(ListOf(playlists, name), id) = 1

C17_ToggleShot == [][C17_AddsOrRemoves /\ C17_TwiceRestores]_vars

C17_ToggleKeepsSets == []C17_NoDuplicateIds /\ C17_ToggleShot

(***************************************************************************)
(* C18: a tag or playlist import whose document root is an array, null or  *)
(* a scalar, or whose text does not parse, is rejected as a whole: tags,   *)
(* playlists and the active playlist are exactly as before.                *)
(***************************************************************************)
C18_BadRoots == {"array", "null", "scalar", "invalid"}

C18_RejectedWhole ==
  [][\A doc \in TagFiles \cup PlaylistFiles :
       (doc.root \in C18_BadRoots
          /\ (handleTagFileSelected(doc) \/ handlePlaylistFileSelected(doc)))
         => UNCHANGED LocalState]_vars

\* a file holding an array was offered as playlists while tags and
\* playlists were loaded
C18_Witness ==
  /\ last.ev = "reject" /\ last.op = "importPlaylists" /\ last.st = "array"
  /\ tags # NoRecord /\ playlists # NoRecord

(***************************************************************************)
(* C19: an import is accepted only if every value of the document is an    *)
(* array of strings: a root object with a value that is not (a number,     *)
(* say) is rejected and leaves tags, playlists and the active playlist     *)
(* unchanged.                                                              *)
(***************************************************************************)
C19_ArraysOfStrings(doc) == \A k \in DOMAIN doc.val : doc.val[k] # JsonNumber

C19_ValuesChecked ==
  [][\A doc \in TagFiles \cup PlaylistFiles :
       (doc.root = "object" /\ ~C19_ArraysOfStrings(doc)
          /\ (handleTagFileSelected(doc) \/ handlePlaylistFileSelected(doc)))
         => UNCHANGED LocalState]_vars

(***************************************************************************)
(* C20: after a successful import, every key of the imported mapping has   *)
(* locally exactly the imported value (the previous entry of that key is   *)
(* replaced, not united with it), and every local key that the imported    *)
(* mapping does not have keeps its value.                                  *)
(***************************************************************************)
C20_Merged(before, after, imported) ==
  /\ DOMAIN after = DOMAIN before \cup DOMAIN imported
  /\ \A k \in DOMAIN imported : after[k] = imported[k]
  /\ \A k \in DOMAIN before \ DOMAIN imported : after[k] = before[k]

C20_ImportReplaces ==
  [][\A doc \in TagFiles \cup PlaylistFiles :
       /\ (handleTagFileSelected(doc) /\ last'.ev = "import")
            => C20_Merged(tags, tags', doc.val) /\ playlists' = playlists
       /\ (handlePlaylistFileSelected(doc) /\ last'.ev = "import")
            => C20_Merged(playlists, playlists', doc.val) /\ tags' = tags]_vars

\* the store gave s2 the tags "a" and "c"; the imported document has s2
\* with no tag and s1 with three
C20_Witness ==
  /\ last.ev = "import" /\ last.op = "importTags"
  /\ load.st = "done" /\ Range(Get(load.tg, ShotS2)) = {TagLa, TagLc}
  /\ Get(tags, ShotS1) = <<TagUA, TagLa, TagLb>>
  /\ ShotS2 \in DOMAIN tags /\ tags[ShotS2] = <<>>
  /\ playlists # NoRecord

(***************************************************************************)
(* C21: an accepted playlist import reports as missing the number of       *)
(* distinct shot ids that the imported mapping refers to anywhere and that *)
(* are not ids of the loaded shots, and it merges the mapping into the     *)
(* playlists whether that number is zero or not.                           *)
(***************************************************************************)
C21_Referenced(imported) ==
  {id \in ShotIds \cup {<<-1>>} : \E k \in DOMAIN imported : Includes(imported[k], id)}

C21_Loaded(id) == \E i \in 1..Len(shots) : shots[i].id = id

C21_WitnessNoneMissing ==
  /\ last.ev = "import" /\ last.op = "importPlaylists"
  /\ notice.missing = 0
  /\ ListQ \in DOMAIN playlists /\ playlists[ListQ] = <<ShotS1, ShotS2>>

(***************************************************************************)
(* Vocabulary of the scan properties.                                      *)
(***************************************************************************)
\* the step taken completes the scan that is i-th under way
Scanned(i) ==
  /\ i \in 1..Len(scans) /\ scans[i].phase = "reading"
  /\ last'.ev = "done" /\ last'.op = "scan"
  /\ scans' = RemoveAt(scans, i)

\* the file lists with the files of a list in every order
Reorderings(files) ==
  LET n == Len(files)
      orders == {p \in [1..n -> 1..n] : \A i, j \in 1..n : p[i] = p[j] => i = j}
  IN  {[i \in 1..n |-> files[p[i]]] : p \in orders}

(***************************************************************************)
(* C22: aggregation does not depend on the order of the input: with the    *)
(* same cover overrides and no read failure, every permutation of a file   *)
(* collection gives the same shots, in the same order, with the same       *)
(* images, videos and notes in the same order.                             *)
(***************************************************************************)
C22_Readable(files) == \A i \in 1..Len(files) : files[i].readable

C22_OrderIndependent ==
  [][\A i \in 1..Len(scans) :
       (Scanned(i) /\ C22_Readable(scans[i].files))
         => \A other \in Reorderings(scans[i].files) :
              ScanResult(other, scans[i].savedCovers) = shots']_vars

(***************************************************************************)
(* C23: the loaded collection is ordered: the images, the videos and the   *)
(* notes of every shot are non-decreasing by file name and the shots are   *)
(* non-decreasing by id, in the order of the comparator the scan sorts     *)
(* with (localeCompare); choosing a cover leaves that order as it is.      *)
(***************************************************************************)
C23_NonDecreasing(l, key(_)) ==
  \A i, j \in 1..Len(l) : i < j => ~LocaleLess(key(l[j]), key(l[i]))

C23_NameOf(f) == f.name
C23_IdOf(s) == s.id

C23_Sorted ==
  /\ C23_NonDecreasing(shots, C23_IdOf)
  /\ \A k \in 1..Len(shots) :
       /\ C23_NonDecreasing(shots[k].imageFiles, C23_NameOf)
       /\ C23_NonDecreasing(shots[k].videoFiles, C23_NameOf)
       /\ C23_NonDecreasing(shots[k].promptFiles, C23_NameOf)

\* a cover was set on a collection of two shots, the first with two images
\* that were listed in the other order
C23_Witness ==
  /\ last.ev = "cover"
  /\ Len(shots) = 2
  /\ Len(shots[1].imageFiles) = 2
  /\ shots[1].imageFiles[1].url > shots[1].imageFiles[2].url

(***************************************************************************)
(* C24: a scan in which every file can be read groups the files by base    *)
(* name: the ids of the shots are pairwise distinct; a base name has a     *)
(* shot exactly when some file of that base name has a listed image, video *)
(* or note extension; each such file is in exactly one place of the        *)
(* collection, the array of its kind of the shot of its base name; a file  *)
(* with another extension or without a base name is nowhere in it.         *)
(***************************************************************************)
C24_Recognised(f) == BaseName(f.name) # Empty /\ KindOf(f.name) \in {"image", "video", "note"}

\* where a file is in a collection: <<id of the shot, kind of the array, index>>
C24_Places(f, result) ==
  UNION { {<<result[k].id, "image", j>> : j \in {j \in 1..Len(result[k].imageFiles) :
                result[k].imageFiles[j] = [name |-> f.name, url |-> f.path]}}
          \cup {<<result[k].id, "video", j>> : j \in {j \in 1..Len(result[k].videoFiles) :
                result[k].videoFiles[j] = [name |-> f.name, url |-> f.path]}}
          \cup {<<result[k].id, "note", j>> : j \in {j \in 1..Len(result[k].promptFiles) :
                result[k].promptFiles[j].name = f.name /\ result[k].promptFiles[j].content = f.path}}
        : k \in 1..Len(result) }

C24_Grouped(files, result) ==
  /\ \A a, b \in 1..Len(result) : result[a].id = result[b].id => a = b
  /\ \A k \in 1..Len(result) :
       /\ result[k].id # Empty
       /\ \E n \in 1..Len(files) :
            C24_Recognised(files[n]) /\ BaseName(files[n].name) = result[k].id
       /\ Len(result[k].imageFiles) + Len(result[k].videoFiles) + Len(result[k].promptFiles)
            = Cardinality({n \in 1..Len(files) : /\ C24_Recognised(files[n])
                                                /\ BaseName(files[n].name) = result[k].id})
  /\ \A n \in 1..Len(files) :
       LET f == files[n]
           places == C24_Places(f, result)
       IN  IF C24_Recognised(f)
           THEN /\ Cardinality(places) = 1
                /\ \A p \in places : p[1] = BaseName(f.name) /\ p[2] = KindOf(f.name)
           ELSE places = {}

C24_OneShotPerBaseName ==
  [][\A i \in 1..Len(scans) :
       (Scanned(i) /\ C22_Readable(scans[i].files))
         => C24_Grouped(scans[i].files, shots')]_vars

\* the scan of a folder with a file without base name, a file of an unlisted
\* extension and two groups is done
C24_Witness ==
  /\ last.ev = "done" /\ last.op = "scan"
  /\ Len(shots) = 2
  /\ shots[1].id = ShotS1 /\ Len(shots[1].imageFiles) = 2 /\ Len(shots[1].videoFiles) = 1
  /\ shots[2].id = ShotS2 /\ Len(shots[2].imageFiles) = 1

(***************************************************************************)
(* C25: extensions are read without regard to letter case: a file with a   *)
(* base name whose extension is json or txt in any case is among the notes *)
(* of its shot, and that note is typed json exactly when the extension is  *)
(* json in any case, text otherwise.                                       *)
(***************************************************************************)
C25_Json == <<106, 115, 111, 110>>
C25_Txt == <<116, 120, 116>>

C25_NotesOf(f, result) ==
  { note \in UNION {Range(result[k].promptFiles) : k \in 1..Len(result)} :
      note.name = f.name /\ note.content = f.path }

C25_CaseInsensitive ==
  [][\A i \in 1..Len(scans) :
       (Scanned(i) /\ C22_Readable(scans[i].files))
         => \A n \in 1..Len(scans[i].files) :
              LET f == scans[i].files[n]
                  ext == Extension(f.name)
              IN  (BaseName(f.name) # Empty /\ ext \in {C25_Json, C25_Txt})
                    => /\ C25_NotesOf(f, shots') # {}
                       /\ \A note \in C25_NotesOf(f, shots') :
                            note.type = IF ext = C25_Json THEN "json" ELSE "text"]_vars

(***************************************************************************)
(* C26: when a note of a group cannot be read during a scan, exactly the   *)
(* groups with such a note are missing from the collection, every other    *)
(* group is as in the scan of the same files with all notes readable, and  *)
(* the scan ends without setting the error message.                       *)
(***************************************************************************)
C26_Failing(files) ==
  { BaseName(files[n].name) : n \in {n \in 1..Len(files) :
      /\ BaseName(files[n].name) # Empty
      /\ KindOf(files[n].name) = "note"
      /\ ~files[n].readable} }

C26_AllReadable(files) == [n \in 1..Len(files) |-> [files[n] EXCEPT !.readable = TRUE]]

C26_OnlyThatGroupDropped ==
  [][\A i \in 1..Len(scans) :
       (Scanned(i) /\ C26_Failing(scans[i].files) # {})
         => LET files == scans[i].files
                without == ScanResult(C26_AllReadable(files), scans[i].savedCovers)
            IN  /\ shots' = SelectSeq(without, LAMBDA s : s.id \notin C26_Failing(files))
                /\ error' = error
                /\ isLoading' = FALSE]_vars

\* the scan of the folder whose note s2.txt cannot be read is done: s1 is
\* loaded with its note, s2 and its image are not
C26_Witness ==
  /\ last.ev = "done" /\ last.op = "scan"
  /\ error = Null
  /\ Len(shots) = 1
  /\ shots[1].id = ShotS1
  /\ Len(shots[1].promptFiles) = 1 /\ shots[1].promptFiles[1].name = NameS1Txt

(***************************************************************************)
(* C27: the cover a scan gives a shot: when the overrides the scan read    *)
(* have an entry for the id of the shot and a file among its images, then  *)
(* its videos, has exactly that name, that file; otherwise the first image *)
(* when the shot has images, else the first video, else no cover.          *)
(***************************************************************************)
C27_Named(s, overrides) ==
  LET media == s.imageFiles \o s.videoFiles
  IN  IF s.id \in DOMAIN overrides
      THEN {media[j].url : j \in {j \in 1..Len(media) : media[j].name = overrides[s.id]}}
      ELSE {}

C27_Resolved(s, overrides) ==
  IF C27_Named(s, overrides) # {} THEN s.coverUrl \in C27_Named(s, overrides)
  ELSE IF s.imageFiles # <<>> THEN s.coverUrl = s.imageFiles[1].url
  ELSE IF s.videoFiles # <<>> THEN s.coverUrl = s.videoFiles[1].url
  ELSE s.coverUrl = NoUrl /\ s.coverType = "none"

C27_CoverAtScan ==
  [][\A i \in 1..Len(scans) :
       Scanned(i) => \A k \in 1..Len(shots') : C27_Resolved(shots'[k], scans[i].savedCovers)]_vars

\* a scan is done that gave s1 the image an override names, not its first image
C27_Witness ==
  /\ last.ev = "done" /\ last.op = "scan"
  /\ Get(shotCovers, ShotS1) = NameS1PngUpper
  /\ \E k \in 1..Len(shots) :
       /\ shots[k].id = ShotS1
       /\ Len(shots[k].imageFiles) = 2
       /\ shots[k].imageFiles[2].name = NameS1PngUpper
       /\ shots[k].coverUrl = shots[k].imageFiles[2].url

\* a scan is done of a folder without the file the override names
C27_WitnessTargetAbsent ==
  /\ last.ev = "done" /\ last.op = "scan"
  /\ Get(shotCovers, ShotS1) = NameS1PngUpper
  /\ \E k \in 1..Len(shots) :
       /\ shots[k].id = ShotS1
       /\ Len(shots[k].imageFiles) = 1 /\ shots[k].imageFiles[1].name = NameS1Png
       /\ shots[k].coverUrl = shots[k].imageFiles[1].url

(***************************************************************************)
(* C28: in every state, for every shot of the collection: the cover type   *)
(* is none exactly when the shot has no image and no video, video exactly  *)
(* when the cover is the file of one of its videos, and image exactly when *)
(* the cover is the file of one of its images.                             *)
(***************************************************************************)
C28_Urls(mediaFiles) == {mediaFiles[j].url : j \in 1..Len(mediaFiles)}

C28_CoverTypeMatches ==
  \A k \in 1..Len(shots) :
    LET s == shots[k]
    IN  /\ s.coverType \in {"none", "image", "video"}
        /\ s.coverType = "none" <=> (s.imageFiles = <<>> /\ s.videoFiles = <<>>)
        /\ s.coverType = "video" <=> s.coverUrl \in C28_Urls(s.videoFiles)
        /\ s.coverType = "image" <=> s.coverUrl \in C28_Urls(s.imageFiles)

\* a video was chosen as the cover of a shot that has images
C28_Witness ==
  /\ last.ev = "cover"
  /\ \E k \in 1..Len(shots) :
       /\ shots[k].id = last.a
       /\ shots[k].imageFiles # <<>>
       /\ shots[k].coverType = "video"
       /\ shots[k].coverUrl \in C28_Urls(shots[k].videoFiles)

\* a scan gave a shot of notes only no cover
C28_WitnessNone ==
  \E k \in 1..Len(shots) : shots[k].coverType = "none" /\ shots[k].promptFiles # <<>>

(***************************************************************************)
(* C29: what a call of setCover(shotId, mediaName) changes.  When the shot *)
(* is loaded and the name is that of one of its images or videos, the      *)
(* overrides get shotId -> mediaName, the shot and the open shot, if it is *)
(* the same one, get that file as cover with its type, and every other     *)
(* shot, every other override and every other field stay as they are.      *)
(* When the shot or the name is not found, the overrides, the collection   *)
(* and the open shot stay as they are.                                     *)
(***************************************************************************)
C29_Found(list, shotId, mediaName) ==
  \E k \in 1..Len(list) :
    /\ list[k].id = shotId
    /\ \E f \in Range(list[k].imageFiles) \cup Range(list[k].videoFiles) : f.name = mediaName

\* after is before with the file of that name as cover
C29_Covered(before, after, mediaName) ==
  /\ \/ /\ after.coverType = "image"
        /\ \E f \in Range(before.imageFiles) : f.name = mediaName /\ f.url = after.coverUrl
     \/ /\ after.coverType = "video"
        /\ \E f \in Range(before.videoFiles) : f.name = mediaName /\ f.url = after.coverUrl
  /\ after = [before EXCEPT !.coverUrl = after.coverUrl, !.coverType = after.coverType]

C29_SetCover ==
  [][\A shotId \in CoverShots, mediaName \in CoverNames :
       handleSetCover(shotId, mediaName)
         => IF C29_Found(shots, shotId, mediaName)
            THEN /\ DOMAIN shotCovers' = DOMAIN shotCovers \cup {shotId}
                 /\ shotCovers'[shotId] = mediaName
                 /\ \A x \in DOMAIN shotCovers \ {shotId} : shotCovers'[x] = shotCovers[x]
                 /\ Len(shots') = Len(shots)
                 /\ \A k \in 1..Len(shots) :
                      IF shots[k].id = shotId
                      THEN C29_Covered(shots[k], shots'[k], mediaName)
                      ELSE shots'[k] = shots[k]
                 /\ IF selectedShot # NoShot /\ selectedShot[1].id = shotId
                    THEN /\ selectedShot' # NoShot
                         /\ \E k \in 1..Len(shots') :
                              /\ shots'[k].id = shotId
                              /\ selectedShot'[1] =
                                   [selectedShot[1] EXCEPT !.coverUrl = shots'[k].coverUrl,
                                                           !.coverType = shots'[k].coverType]
                    ELSE selectedShot' = selectedShot
            ELSE UNCHANGED <<shotCovers, shots, selectedShot>>]_vars

\* the video of the open shot was made its cover while another shot is loaded
C29_Witness ==
  /\ last.ev = "cover"
  /\ Len(shots) = 2
  /\ Get(shotCovers, last.a) = last.b
  /\ selectedShot # NoShot
  /\ selectedShot[1].id = last.a
  /\ selectedShot[1].coverType = "video"
  /\ selectedShot[1].imageFiles # <<>>

\* a cover was asked for that the loaded shots do not have
C29_WitnessNotFound ==
  /\ last.ev = "reject" /\ last.op = "setCover"
  /\ shots # <<>>

(***************************************************************************)
(* C30: cover overrides survive scans.  No step of a scan changes the      *)
(* overrides; a scan works with the overrides as they are stored when it   *)
(* starts to read the folder; and in its result every shot that has an     *)
(* override and still has an image or a video of that name has that file   *)
(* as its cover.                                                           *)
(***************************************************************************)
C30_Kept(s, overrides) ==
  LET media == Range(s.imageFiles) \cup Range(s.videoFiles)
  IN  (s.id \in DOMAIN overrides /\ \E f \in media : f.name = overrides[s.id])
        => \E f \in media : f.name = overrides[s.id] /\ f.url = s.coverUrl

C30_OverridesSurvive ==
  [][/\ last'.op = "scan" => shotCovers' = shotCovers
     /\ \A i \in 1..Len(scans) :
          /\ (ScanBegin(i) => scans'[i].savedCovers = shotCovers)
          /\ (Scanned(i) => \A k \in 1..Len(shots') : C30_Kept(shots'[k], scans[i].savedCovers))]_vars

\* after the video of s1 was chosen as its cover, a scan of a folder that has
\* images of s1 and that video is done
C30_Witness ==
  /\ last.ev = "done" /\ last.op = "scan"
  /\ Get(shotCovers, ShotS1) = NameS1Mp4
  /\ \E k \in 1..Len(shots) :
       /\ shots[k].id = ShotS1
       /\ shots[k].imageFiles # <<>>
       /\ shots[k].coverType = "video"
       /\ \E f \in Range(shots[k].videoFiles) : f.name = NameS1Mp4 /\ f.url = shots[k].coverUrl

(***************************************************************************)
(* C36: a playlist route that changes the store (rename, delete, add a     *)
(* shot, remove a shot), asked for a name the store does not have, answers *)
(* not found and leaves the store as it is.                                *)
(***************************************************************************)
C36_Mutating == {"rename", "delete", "addShot", "removeShot"}

C36_NotFound ==
  [][(/\ last'.ev = "serve"
      /\ last'.op \in C36_Mutating
      /\ last'.a \notin DOMAIN srvPlaylists)
       => /\ last'.st = "http"
          /\ srvPlaylists' = srvPlaylists]_vars

(***************************************************************************)
(* C38: once the startup load has completed, the active playlist is none   *)
(* or the name of a playlist of the local mapping, whatever the order of   *)
(* creates, renames, deletes, imports and selections, also when a playlist *)
(* is selected while a delete or a rename awaits its remote call.          *)
(***************************************************************************)
C38_ActiveIsListed ==
  load.st = "done"
    => (activePlaylistName = Null \/ PlaylistExists(playlists, activePlaylistName))

(***************************************************************************)
(* C35: two scans are never under way together: from the moment a folder   *)
(* selection is accepted until its scan has installed its collection or    *)
(* has failed, the call that saves the directory included, no other        *)
(* selection starts a scan.                                                *)
(***************************************************************************)
C35_OneScanAtATime ==
  [][Len(scans') > Len(scans) => scans = <<>>]_vars

(***************************************************************************)
(* C34: when a scan replaces a loaded collection (by emptying it as it     *)
(* starts to read, or by installing its own over the one of an overlapping *)
(* scan), every object URL of the images and videos of the replaced        *)
(* collection is revoked in that step; and no object URL stays unrevoked   *)
(* that the current collection does not hold.                              *)
(***************************************************************************)
C34_Replaces == last'.op = "scan" /\ shots # <<>> /\ shots' # shots

C34_ReleasedOnReplace ==
  /\ [](blobs \subseteq ObjectUrls(shots, shotsScan))
  /\ [][C34_Replaces => ObjectUrls(shots, shotsScan) \cap blobs' = {}]_vars

\* a scan installed its collection over the one an overlapping scan had
\* installed
C34_Witness ==
  /\ last.ev = "done" /\ last.op = "scan"
  /\ shotsScan = 2
  /\ blobs # {}
  /\ blobs = ObjectUrls(shots, shotsScan)

(***************************************************************************)
(* C37: every object URL an image or a video of the current collection     *)
(* holds is unrevoked while that collection is current, also after a cover *)
(* was set, which replaces the array of shots and keeps the files.         *)
(***************************************************************************)
C37_UrlsLive == ObjectUrls(shots, shotsScan) \subseteq blobs

(***************************************************************************)
(* C39: a scan that has set the loading flag clears it: whenever the flag  *)
(* is set it is cleared later, by the end of a scan, whether the scan      *)
(* installs its collection (with or without groups that could not be read) *)
(* or throws; and the error message is set by a scan that throws, by       *)
(* nothing else.                                                           *)
(***************************************************************************)
C39_ScanEnded == last'.op = "scan" /\ last'.ev \in {"done", "throw"}

C39_LoadingClears ==
  /\ isLoading ~> ~isLoading
  /\ [][C39_ScanEnded => ~isLoading']_vars
  /\ [][/\ (last'.op = "scan" /\ last'.ev = "throw") => error' = ErrorMessage
        /\ (error' # Null /\ error' # error) => (last'.op = "scan" /\ last'.ev = "throw")]_vars

\* a scan has thrown: the message is set and the flag is cleared
C39_Witness ==
  /\ last.ev = "throw"
  /\ error = ErrorMessage
  /\ ~isLoading

(***************************************************************************)
(* C31: when tag filters are selected, a shot passes the tag filter        *)
(* exactly when every selected tag is in the tag list of the shot; a shot  *)
(* with some of the selected tags only, or with no tags, does not pass.    *)
(***************************************************************************)
C31_Passed(shot) ==
  \E j \in 1..Len(TagFiltered(shots, tags, selectedTags)) :
     TagFiltered(shots, tags, selectedTags)[j] = shot

C31_TagFilterIsAnd ==
  selectedTags # {} =>
    \A k \in 1..Len(shots) :
       C31_Passed(shots[k]) <=> selectedTags \subseteq Range(Get(tags, shots[k].id))

\* two tags are selected, s1 and s2 are loaded, s2 has both and is the only
\* shot that passes
C31_Witness ==
  /\ selectedTags = {TagLa, TagLc}
  /\ Len(shots) = 2
  /\ Len(TagFiltered(shots, tags, selectedTags)) = 1
  /\ TagFiltered(shots, tags, selectedTags)[1].id = ShotS2

\* two tags are selected and each loaded shot has one of them: none passes
C31_WitnessProperSubset ==
  /\ selectedTags = {TagUA, TagLa}
  /\ Len(shots) = 2
  /\ \A k \in 1..Len(shots) : Range(Get(tags, shots[k].id)) \cap selectedTags # {}
  /\ TagFiltered(shots, tags, selectedTags) = <<>>

(***************************************************************************)
(* C32: the search result is the shots of the collection, in its order,    *)
(* that pass the tag filter and, when the trimmed lower-cased query is not *)
(* empty, have the query in their id, in the concatenation of their note   *)
(* contents or in one of their tags, case ignored.                         *)
(***************************************************************************)
RECURSIVE C32_Joined(_, _)
C32_Joined(contents, separator) ==
  IF contents = <<>> THEN Empty
  ELSE IF Len(contents) = 1 THEN contents[1]
  ELSE contents[1] \o separator \o C32_Joined(Tail(contents), separator)

C32_Within(text, query) ==
  \E from \in 1..(Len(text) + 1), to \in 0..Len(text) :
     SubSeq(ToLowerCase(text), from, to) = query

C32_Matches(shot, query, separator) ==
  \/ C32_Within(shot.id, query)
  \/ C32_Within(C32_Joined([j \in 1..Len(shot.promptFiles) |->
                               Text(shot.promptFiles[j].content)], separator), query)
  \/ \E tag \in Range(Get(tags, shot.id)) : C32_Within(tag, query)

C32_Expected(separator) ==
  SelectSeq(shots, LAMBDA shot :
    /\ selectedTags \subseteq Range(Get(tags, shot.id))
    /\ \/ Trim(ToLowerCase(searchQuery)) = Empty
       \/ C32_Matches(shot, Trim(ToLowerCase(searchQuery)), separator))

\* as claimed: the note contents are concatenated
C32_SearchByConcatenation == filteredShots = C32_Expected(Empty)

\* as the code has it: the note contents are joined by one space
C32_SearchByJoinedNotes == filteredShots = C32_Expected(Blank)

\* s1 has the notes "C" and "b": the query "C b" finds it, and it is the only
\* shot found
C32_Witness ==
  /\ searchQuery = QuerySpaced
  /\ Len(shots) = 2
  /\ Len(filteredShots) = 1
  /\ filteredShots[1].id = ShotS1
  /\ Len(filteredShots[1].promptFiles) = 2

\* the query " S1" finds s1 by its id
C32_WitnessTrimmed ==
  /\ searchQuery = QueryPaddedS1
  /\ Len(shots) = 2
  /\ Len(filteredShots) = 1
  /\ filteredShots[1].id = ShotS1

(***************************************************************************)
(* C33: the export of tags for a selection of tags offers a mapping whose  *)
(* keys are the shot ids with at least one selected tag, each with the     *)
(* complete tag list of the shot.                                          *)
(***************************************************************************)
C33_Relevant(itemsToExport) ==
  {shotId \in DOMAIN tags : Range(tags[shotId]) \cap itemsToExport # {}}

C33_ExportTags ==
  [][\A itemsToExport \in (SUBSET allTags) \ {{}} :
       (exportModalState = "tags" /\ handlePerformExport(itemsToExport)) =>
          /\ DOMAIN exported'.data = C33_Relevant(itemsToExport)
          /\ \A shotId \in C33_Relevant(itemsToExport) : exported'.data[shotId] = tags[shotId]]_vars

\* an export that has s2 with its two tags and has not s1, which has a tag
C33_Witness ==
  /\ last.ev = "export" /\ last.st = "tags"
  /\ Get(tags, ShotS1) # <<>>
  /\ DOMAIN exported.data = {ShotS2}
  /\ Len(exported.data[ShotS2]) = 2

====
